---- MODULE Spec2Model ----
(***************************************************************************)
(* Bounded-concurrency forwarding core of pineapple-lead-api.              *)
(*                                                                         *)
(* One dispatch = one inbound POST handled by the chain                    *)
(*   middleware.Timeout -> RateLimitMiddleware -> LeadTransferHandler /    *)
(*   QuickQuoteHandler -> utils.MakeAPIRequestAsync -> utils.MakeAPIRequest*)
(* plus the detached persistence goroutine the handler spawns.             *)
(* The two handlers have the same control flow; one handler is modelled.   *)
(*                                                                         *)
(* Spec is the dispatches going through the chain; SpecCall is             *)
(* utils.MakeAPIRequest called directly with chosen arguments.             *)
(***************************************************************************)
EXTENDS Integers, FiniteSets, Sequences

VARIABLES
    config,        \* *Configuration built once by GetConfig
    env,           \* process environment read by MakeAPIRequest
    apiSemaphore,  \* buffered channel of struct{}: [cap, len]
    dbPool,        \* db.dbPool: "nil" or "pool"
    req,           \* per dispatch: what the inbound request looks like to ValidateRequest
    exchange,      \* per dispatch: what the upstream exchange did ([net, status])
    hpc,           \* per dispatch: position of the handler goroutine
    gpc,           \* per dispatch: position of the MakeAPIRequestAsync goroutine
    ppc,           \* per dispatch: position of the persistence goroutine
    ctx,           \* per dispatch: request context (Timeout middleware + handler WithTimeout)
    bgCtx,         \* per dispatch: context of the persistence goroutine
    holds,         \* per dispatch: has sent to apiSemaphore and not yet received back
    resultChan,    \* per dispatch: buffered channel (capacity 1) of APIResult
    result,        \* per dispatch: the handler's local `result`
    w,             \* per dispatch: the http.ResponseWriter as the client sees it
    call,          \* per direct call of MakeAPIRequest: arguments, position, effects, return
    boot,          \* the process from its start to serving: position, .env file, what init built
    inbound,       \* per dispatch: the request as it arrives (Content-Type header, body)
    batch          \* one call of ProcessAPIRequests: its loop, goroutines, WaitGroup, results

vars == <<config, env, apiSemaphore, dbPool, req, exchange, hpc, gpc, ppc, ctx, bgCtx, holds,
          resultChan, result, w, call, boot, inbound, batch>>

----------------------------------------------------------------------------
(* Bounds of the model *)

NumDispatches == 2   \* dispatches that may arrive
NumCalls == 2        \* direct calls of MakeAPIRequest
MaxCapacity == 2     \* largest MAX_CONCURRENT_CALLS tried
MaxBatch == 2        \* longest slice of requests given to ProcessAPIRequests
BurstCapacity == 2   \* MAX_CONCURRENT_CALLS of the burst; BurstCapacity + 1 requests arrive

----------------------------------------------------------------------------
(* Values *)

Dispatches == DOMAIN hpc

SwaggerToken == "swagger_documentation_token"
RealToken == "real_token"

\* Outcomes of the Content-Type check, the JSON decode and validate.Struct
RequestKinds == {"bad_content_type", "undecodable", "invalid_field", "valid"}

StatusOK == 200
StatusBadRequest == 400
StatusUnsupportedMediaType == 415
StatusTooManyRequests == 429
StatusInternalServerError == 500
StatusGatewayTimeout == 504

\* Statuses the upstream answers with: success and service unavailable
UpstreamStatuses == {200, 503}

\* What the upstream exchange does once httpClient.Do has been called.
\*   net = "error"    Do fails (connection refused, DNS, ...)
\*   net = "timeout"  httpClient.Timeout fires before the exchange completed
\*   net = "readerr"  headers arrived, io.ReadAll fails
\*   net = "ok"       status and whole body arrived
UpstreamOutcomes ==
    {[net |-> n, status |-> 0, body |-> "none"] : n \in {"error", "timeout", "readerr"}}
    \cup
    {[net |-> "ok", status |-> s, body |-> b] :
        s \in UpstreamStatuses,
        b \in {"valid", "undecodable", "unsuccessful"}}

NoExchange == [net |-> "none", status |-> 0]
NoResult == [err |-> "unset", body |-> "none"]
\* ProcessAPIRequests has not been called
NoBatch == [pc |-> "None"]

\* main has come to http.ListenAndServe
Serving == [pc |-> "Serving"]

NoResponse == [status |-> 0, writes |-> 0, fmt |-> "none", msg |-> "none", detail |-> "none"]

----------------------------------------------------------------------------
(* Pure helpers *)

\* Variant of SemCanSend: the send also goes through on a full buffer
SemCanSendWhenFull(sem) == sem.len <= sem.cap

\* apiSemaphore <- struct{}{} can proceed iff the buffer is not full
SemCanSend(sem) == sem.len < sem.cap

SemSend(sem) == [sem EXCEPT !.len = @ + 1]

\* <-apiSemaphore in the deferred func
SemReceive(sem) == [sem EXCEPT !.len = @ - 1]

\* strings.Contains, a string being the sequence of its pieces
StrContains(str, piece) == \E i \in DOMAIN str : str[i] = piece

\* isSwaggerRequest
IsSwaggerRequest(cfg, e) ==
    \/ cfg.APIBearerToken = SwaggerToken
    \/ StrContains(e.HTTP_REFERER, "/swagger/")
    \/ StrContains(e.HTTP_USER_AGENT, "Swagger")

\* Variant of ChanCanSend: resultChan is made without a buffer and nobody
\* is receiving yet
ChanCanSendUnbuffered(ch) == Len(ch) < 0

\* resultChan := make(chan APIResult, 1): a send goes through iff the one
\* slot of the buffer is free
ChanCanSend(ch) == Len(ch) < 1

\* ctx.Err() != nil
CtxDone(c) == c \in {"canceled", "deadline"}

CtxErr(c) == IF c = "deadline" THEN "context_deadline_exceeded" ELSE "context_canceled"

\* Variant of APIResponse: the timeout of httpClient is not reported as an error
APIResponseTimeoutUnreported(o) ==
    IF o.net = "error" THEN [err |-> "send_error", body |-> "none"]
    ELSE IF o.net = "timeout" THEN [err |-> "none", body |-> "valid"]
    ELSE IF o.net = "readerr" THEN [err |-> "read_error", body |-> "none"]
    ELSE IF o.status < 200 \/ o.status >= 300 THEN [err |-> "non_2xx", body |-> "none"]
    ELSE [err |-> "none", body |-> o.body]

\* Variant of APIResponse: the status code of the answer is not looked at
APIResponseStatusUnchecked(o) ==
    IF o.net = "error" THEN [err |-> "send_error", body |-> "none"]
    ELSE IF o.net = "timeout" THEN [err |-> "timeout", body |-> "none"]
    ELSE IF o.net = "readerr" THEN [err |-> "read_error", body |-> "none"]
    ELSE [err |-> "none", body |-> o.body]

\* Variant of APIResponse: the upper end of the status check is off by one
APIResponseAccepts300(o) ==
    IF o.net = "error" THEN [err |-> "send_error", body |-> "none"]
    ELSE IF o.net = "timeout" THEN [err |-> "timeout", body |-> "none"]
    ELSE IF o.net = "readerr" THEN [err |-> "read_error", body |-> "none"]
    ELSE IF o.status < 200 \/ o.status > 300 THEN [err |-> "non_2xx", body |-> "none"]
    ELSE [err |-> "none", body |-> o.body]

\* The (body, error) pair MakeAPIRequest returns for a finished exchange
APIResponse(o) ==
    IF o.net = "error" THEN [err |-> "send_error", body |-> "none"]
    ELSE IF o.net = "timeout" THEN [err |-> "timeout", body |-> "none"]
    ELSE IF o.net = "readerr" THEN [err |-> "read_error", body |-> "none"]
    ELSE IF o.status < 200 \/ o.status >= 300 THEN [err |-> "non_2xx", body |-> "none"]
    ELSE [err |-> "none", body |-> o.body]

\* createMockResponse for the configured lead / quote endpoint
MockResponse == [err |-> "none", body |-> "valid"]

\* http.ResponseWriter: the first WriteHeader wins, later ones are dropped
WriteHeader(rw, code) == IF rw.status = 0 THEN [rw EXCEPT !.status = code] ELSE rw

\* http.ResponseWriter.Write: implicit WriteHeader(200), then the body
WriteBody(rw, f, m, dt) ==
    [WriteHeader(rw, StatusOK) EXCEPT !.writes = @ + 1, !.fmt = f, !.msg = m, !.detail = dt]

\* utils.respondWithError: JSON {"success":false,"error":message}
RespondWithError(rw, code, m) == WriteBody(WriteHeader(rw, code), "json_error", m, "none")

\* http.Error: plain text message
HttpError(rw, m, dt, code) == WriteBody(WriteHeader(rw, code), "text", m, dt)

\* deferred func of middleware.Timeout: cancel(); 504 if the deadline passed
TimeoutExit(rw, c) == IF c = "deadline" THEN WriteHeader(rw, StatusGatewayTimeout) ELSE rw

----------------------------------------------------------------------------
\* The process states after startup that are explored: every capacity with a
\* real credential and a database, and, at capacity 1, a process without
\* database and a process started with the documentation token.
Startups ==
    {[cap |-> c, token |-> RealToken, db |-> "pool"] : c \in 0..MaxCapacity}
    \cup {[cap |-> 1, token |-> RealToken, db |-> "nil"],
          [cap |-> 1, token |-> SwaggerToken, db |-> "pool"]}

Init ==
    /\ \E s \in Startups :
          /\ config = [MaxConcurrentCalls |-> s.cap, APIBearerToken |-> s.token]
          /\ apiSemaphore = [cap |-> s.cap, len |-> 0]
          /\ dbPool = s.db
    /\ env = [HTTP_USER_AGENT |-> <<>>, HTTP_REFERER |-> <<>>]
    /\ req = [d \in 1..NumDispatches |-> "none"]
    /\ exchange = [d \in 1..NumDispatches |-> NoExchange]
    /\ hpc = [d \in 1..NumDispatches |-> "Idle"]
    /\ gpc = [d \in 1..NumDispatches |-> "None"]
    /\ ppc = [d \in 1..NumDispatches |-> "None"]
    /\ ctx = [d \in 1..NumDispatches |-> "none"]
    /\ bgCtx = [d \in 1..NumDispatches |-> "none"]
    /\ holds = [d \in 1..NumDispatches |-> FALSE]
    /\ resultChan = [d \in 1..NumDispatches |-> <<>>]
    /\ result = [d \in 1..NumDispatches |-> NoResult]
    /\ w = [d \in 1..NumDispatches |-> NoResponse]
    /\ call = <<>>
    /\ boot = Serving
    /\ batch = NoBatch
    /\ inbound = <<>>

----------------------------------------------------------------------------
(* Request context *)

\* net/http cancels r.Context() when the client connection goes away
ClientDisconnect(d) ==
    /\ ctx[d] = "live"
    /\ ctx' = [ctx EXCEPT ![d] = "canceled"]
    /\ UNCHANGED <<batch, boot, inbound, call, config, env, apiSemaphore, dbPool, req, exchange, hpc,
                   gpc, ppc, bgCtx, holds,
                   resultChan, result, w>>

\* the timer of context.WithTimeout(.., RequestTimeout) fires
RequestDeadline(d) ==
    /\ ctx[d] = "live"
    /\ ctx' = [ctx EXCEPT ![d] = "deadline"]
    /\ UNCHANGED <<batch, boot, inbound, call, config, env, apiSemaphore, dbPool, req, exchange, hpc,
                   gpc, ppc, bgCtx, holds,
                   resultChan, result, w>>

\* The handler returns: its deferred cancel and the deferred func of
\* middleware.Timeout run, and the request is over.
HandlerReturn(d, rw) ==
    /\ w' = [w EXCEPT ![d] = TimeoutExit(rw, ctx[d])]
    /\ hpc' = [hpc EXCEPT ![d] = "Finished"]
    /\ ctx' = [ctx EXCEPT ![d] = "released"]

----------------------------------------------------------------------------
(* Middleware chain and handler *)

\* RateLimitMiddleware lets the request through to the handler
Admit(d) ==
    /\ hpc[d] = "Idle"
    /\ hpc' = [hpc EXCEPT ![d] = "Validating"]
    /\ ctx' = [ctx EXCEPT ![d] = "live"]
    /\ UNCHANGED <<batch, boot, inbound, call, config, env, apiSemaphore, dbPool, req, exchange, gpc,
                   ppc, bgCtx, holds,
                   resultChan, result, w>>

\* Variant of RateLimitReject: the 429 is written and the request is passed on
\* to the handler all the same
RateLimitRejectPassesOn(d) ==
    /\ hpc[d] = "Idle"
    /\ w' = [w EXCEPT ![d] = RespondWithError(@, StatusTooManyRequests, "rate_limit")]
    /\ hpc' = [hpc EXCEPT ![d] = "Validating"]
    /\ ctx' = [ctx EXCEPT ![d] = "live"]
    /\ UNCHANGED <<batch, boot, inbound, call, config, env, apiSemaphore, dbPool, req, exchange, gpc,
                   ppc, bgCtx, holds,
                   resultChan, result>>

\* RateLimitMiddleware rejects the request: 429 with the JSON message
RateLimitReject(d) ==
    /\ hpc[d] = "Idle"
    /\ w' = [w EXCEPT ![d] = RespondWithError(@, StatusTooManyRequests, "rate_limit")]
    /\ hpc' = [hpc EXCEPT ![d] = "Finished"]
    /\ ctx' = [ctx EXCEPT ![d] = "released"]
    /\ UNCHANGED <<batch, boot, inbound, call, config, env, apiSemaphore, dbPool, req, exchange, gpc,
                   ppc, bgCtx, holds,
                   resultChan, result>>

\* Status and message ValidateRequest answers with for a request it refuses
ValidationStatus(k) ==
    IF k = "bad_content_type" THEN StatusUnsupportedMediaType ELSE StatusBadRequest

\* Variant of ValidateRequest: nothing is refused
ValidateRequestAcceptsAll(k) == TRUE

\* ValidateRequest: Content-Type check, json decode, validate.Struct
ValidateRequest(k) == k = "valid"

\* The request read from the connection is k and ValidateRequest refuses
\* it: the handler returns at once
ValidateFail(d, k) ==
    /\ hpc[d] = "Validating"
    /\ ~ValidateRequest(k)
    /\ req' = [req EXCEPT ![d] = k]
    /\ HandlerReturn(d, RespondWithError(w[d], ValidationStatus(k), k))
    /\ UNCHANGED <<batch, boot, inbound, call, config, env, apiSemaphore, dbPool, exchange, gpc, ppc,
                   bgCtx, holds,
                   resultChan, result>>

----------------------------------------------------------------------------
(* MakeAPIRequestAsync goroutine running MakeAPIRequest *)

\* Variant of MakeAPIRequestAsync: the goroutine does not look at ctx
MakeAPIRequestAsyncSkipsSelect(d) ==
    IF IsSwaggerRequest(config, env)
    THEN /\ resultChan' = [resultChan EXCEPT ![d] = <<MockResponse>>]
         /\ gpc' = [gpc EXCEPT ![d] = "Exit"]
         /\ UNCHANGED <<apiSemaphore, holds>>
    ELSE IF SemCanSend(apiSemaphore)
    THEN /\ apiSemaphore' = SemSend(apiSemaphore)
         /\ holds' = [holds EXCEPT ![d] = TRUE]
         /\ gpc' = [gpc EXCEPT ![d] = "Calling"]
         /\ UNCHANGED resultChan
    ELSE /\ gpc' = [gpc EXCEPT ![d] = "Gated"]
         /\ UNCHANGED <<apiSemaphore, holds, resultChan>>

\* The goroutine of MakeAPIRequestAsync up to its first blocking point: the
\* non-blocking select on ctx.Done(), then MakeAPIRequest up to the send on
\* apiSemaphore, which goes through at once when the buffer has room
\* (httpClient.Do is called) and parks the goroutine otherwise.
MakeAPIRequestAsync(d) ==
    IF CtxDone(ctx[d])
    THEN /\ resultChan' = [resultChan EXCEPT ![d] = <<[err |-> CtxErr(ctx[d]), body |-> "none"]>>]
         /\ gpc' = [gpc EXCEPT ![d] = "Exit"]
         /\ UNCHANGED <<apiSemaphore, holds>>
    ELSE IF IsSwaggerRequest(config, env)
    THEN /\ resultChan' = [resultChan EXCEPT ![d] = <<MockResponse>>]
         /\ gpc' = [gpc EXCEPT ![d] = "Exit"]
         /\ UNCHANGED <<apiSemaphore, holds>>
    ELSE IF SemCanSend(apiSemaphore)
    THEN /\ apiSemaphore' = SemSend(apiSemaphore)
         /\ holds' = [holds EXCEPT ![d] = TRUE]
         /\ gpc' = [gpc EXCEPT ![d] = "Calling"]
         /\ UNCHANGED resultChan
    ELSE /\ gpc' = [gpc EXCEPT ![d] = "Gated"]
         /\ UNCHANGED <<apiSemaphore, holds, resultChan>>

\* The request read from the connection is k and ValidateRequest accepts
\* it: the handler calls MakeAPIRequestAsync and blocks on <-resultChan
ValidateOk(d, k) ==
    /\ hpc[d] = "Validating"
    /\ ValidateRequest(k)
    /\ req' = [req EXCEPT ![d] = k]
    /\ hpc' = [hpc EXCEPT ![d] = "Waiting"]
    /\ MakeAPIRequestAsync(d)
    /\ UNCHANGED <<batch, boot, inbound, call, config, env, dbPool, exchange, ppc, ctx, bgCtx, result, w>>

\* A parked send on apiSemaphore goes through once the buffer has room;
\* httpClient.Do is called
Acquire(d) ==
    /\ gpc[d] = "Gated"
    /\ SemCanSend(apiSemaphore)
    /\ apiSemaphore' = SemSend(apiSemaphore)
    /\ holds' = [holds EXCEPT ![d] = TRUE]
    /\ gpc' = [gpc EXCEPT ![d] = "Calling"]
    /\ UNCHANGED <<batch, boot, inbound, call, config, env, dbPool, req, exchange, hpc, ppc, ctx,
                   bgCtx, resultChan, result, w>>

\* Variant of ReleaseOnReturn: the token is given back on the success path only
ReleaseOnSuccessOnly(sem, r) == IF r.err = "none" THEN SemReceive(sem) ELSE sem

\* Variant of ReleaseOnReturn: the token is kept while the caller handles a
\* good response
ReleaseOnErrorOnly(sem, r) == IF r.err = "none" THEN sem ELSE SemReceive(sem)

\* The deferred func of MakeAPIRequest, run on every return path
ReleaseOnReturn(sem, r) == SemReceive(sem)

\* Variant of UpstreamReturn: a failed exchange is tried again
UpstreamReturnRetries(d, o) ==
    /\ gpc[d] = "Calling"
    /\ ChanCanSend(resultChan[d])
    /\ LET r == APIResponse(o)
       IN IF r.err # "none" /\ exchange[d] = NoExchange
          THEN UNCHANGED <<apiSemaphore, holds, resultChan, gpc>>
          ELSE /\ apiSemaphore' = ReleaseOnReturn(apiSemaphore, r)
               /\ holds' = [holds EXCEPT ![d] = FALSE]
               /\ resultChan' = [resultChan EXCEPT ![d] = <<r>>]
               /\ gpc' = [gpc EXCEPT ![d] = "Exit"]
    /\ exchange' = [exchange EXCEPT ![d] = [net |-> o.net, status |-> o.status]]
    /\ UNCHANGED <<batch, boot, inbound, call, config, env, dbPool, req, hpc, ppc, ctx, bgCtx, result, w>>

\* The exchange ends with outcome o: MakeAPIRequest returns (its deferred
\* release runs), the goroutine sends the APIResult and closes the channel.
\* The send needs room in the buffer of resultChan.
UpstreamReturn(d, o) ==
    /\ gpc[d] = "Calling"
    /\ ChanCanSend(resultChan[d])
    /\ LET r == APIResponse(o)
           sem == ReleaseOnReturn(apiSemaphore, r)
       IN /\ apiSemaphore' = sem
          /\ holds' = [holds EXCEPT ![d] = (sem = apiSemaphore)]
          /\ resultChan' = [resultChan EXCEPT ![d] = <<r>>]
    /\ gpc' = [gpc EXCEPT ![d] = "Exit"]
    /\ exchange' = [exchange EXCEPT ![d] = [net |-> o.net, status |-> o.status]]
    /\ UNCHANGED <<batch, boot, inbound, call, config, env, dbPool, req, hpc, ppc, ctx, bgCtx, result, w>>

----------------------------------------------------------------------------
(* Handler after the upstream call *)

\* Variant of Receive: the handlers share one result channel, so a handler
\* may take the result another dispatch's goroutine has sent
ReceiveFromShared(d) ==
    /\ hpc[d] = "Waiting"
    /\ \E e \in Dispatches :
          /\ resultChan[e] # <<>>
          /\ LET r == Head(resultChan[e])
             IN IF r.err # "none"
                THEN /\ HandlerReturn(d, HttpError(w[d], "call_error", r.err,
                                                  StatusInternalServerError))
                     /\ UNCHANGED result
                ELSE /\ hpc' = [hpc EXCEPT ![d] = "Decoding"]
                     /\ result' = [result EXCEPT ![d] = r]
                     /\ UNCHANGED <<ctx, w>>
          /\ resultChan' = [resultChan EXCEPT ![e] = <<>>]
    /\ UNCHANGED <<batch, boot, inbound, call, config, env, apiSemaphore, dbPool, req, exchange, gpc,
                   ppc, bgCtx, holds>>

\* result := <-resultChan, then the check of result.Error
Receive(d) ==
    /\ hpc[d] = "Waiting"
    /\ resultChan[d] # <<>>
    /\ LET r == Head(resultChan[d])
       IN IF r.err # "none"
          THEN /\ HandlerReturn(d, HttpError(w[d], "call_error", r.err, StatusInternalServerError))
               /\ UNCHANGED result
          ELSE /\ hpc' = [hpc EXCEPT ![d] = "Decoding"]
               /\ result' = [result EXCEPT ![d] = r]
               /\ UNCHANGED <<ctx, w>>
    /\ resultChan' = [resultChan EXCEPT ![d] = <<>>]
    /\ UNCHANGED <<batch, boot, inbound, call, config, env, apiSemaphore, dbPool, req, exchange, gpc,
                   ppc, bgCtx, holds>>

\* Variant of DecodeFail: the return after http.Error is missing, so the
\* handler goes on to encode the response as well
DecodeFailNoReturn(d) ==
    /\ hpc[d] = "Decoding"
    /\ result[d].body # "valid"
    /\ HandlerReturn(d, WriteBody(HttpError(w[d],
            IF result[d].body = "undecodable" THEN "decode_error" ELSE "invalid_response",
            "none", StatusInternalServerError), "json", "payload", "none"))
    /\ UNCHANGED <<batch, boot, inbound, call, config, env, apiSemaphore, dbPool, req, exchange, gpc,
                   ppc, bgCtx, holds,
                   resultChan, result>>

\* json.Unmarshal fails, or the response check (success flag, identifier) fails
DecodeFail(d) ==
    /\ hpc[d] = "Decoding"
    /\ result[d].body # "valid"
    /\ HandlerReturn(d, HttpError(w[d],
            IF result[d].body = "undecodable" THEN "decode_error" ELSE "invalid_response",
            "none", StatusInternalServerError))
    /\ UNCHANGED <<batch, boot, inbound, call, config, env, apiSemaphore, dbPool, req, exchange, gpc,
                   ppc, bgCtx, holds,
                   resultChan, result>>

\* The response is good: the handler starts the persistence goroutine
DecodeOk(d) ==
    /\ hpc[d] = "Decoding"
    /\ result[d].body = "valid"
    /\ hpc' = [hpc EXCEPT ![d] = "Done"]
    /\ ppc' = [ppc EXCEPT ![d] = "Running"]
    /\ bgCtx' = [bgCtx EXCEPT ![d] = "live"]
    /\ UNCHANGED <<batch, boot, inbound, call, config, env, apiSemaphore, dbPool, req, exchange, gpc,
                   ctx, holds,
                   resultChan, result, w>>

\* Variant of Respond: the handler waits for the save and reports its failure
RespondAfterSave(d) ==
    /\ hpc[d] = "Done"
    /\ ppc[d] # "Running"
    /\ HandlerReturn(d, IF ppc[d] \in {"SaveError", "Aborted"}
                        THEN HttpError(w[d], "persistence_error", "none", StatusInternalServerError)
                        ELSE WriteBody(w[d], "json", "payload", "none"))
    /\ UNCHANGED <<batch, boot, inbound, call, config, env, apiSemaphore, dbPool, req, exchange, gpc,
                   ppc, bgCtx, holds,
                   resultChan, result>>

\* json.NewEncoder(w).Encode(resp), then the handler returns
Respond(d) ==
    /\ hpc[d] = "Done"
    /\ HandlerReturn(d, WriteBody(w[d], "json", "payload", "none"))
    /\ UNCHANGED <<batch, boot, inbound, call, config, env, apiSemaphore, dbPool, req, exchange, gpc,
                   ppc, bgCtx, holds,
                   resultChan, result>>

----------------------------------------------------------------------------
(* Persistence goroutine *)

\* The deadline of context.WithTimeout(context.Background(), 10s) passes
BgDeadline(d) ==
    /\ ppc[d] = "Running"
    /\ bgCtx[d] = "live"
    /\ bgCtx' = [bgCtx EXCEPT ![d] = "deadline"]
    /\ UNCHANGED <<batch, boot, inbound, call, config, env, apiSemaphore, dbPool, req, exchange, hpc,
                   gpc, ppc, ctx, holds,
                   resultChan, result, w>>

\* Variant of PersistCtxDone: the save runs under a child of the request context
PersistCtxDoneInherited(d) == CtxDone(bgCtx[d]) \/ ctx[d] \in {"canceled", "deadline", "released"}

\* The context SaveLead / SaveQuote runs under is done
PersistCtxDone(d) == CtxDone(bgCtx[d])

\* Variant of Save: a failed INSERT is tried again
SaveRetriesOnError(d, q) ==
    /\ ppc[d] \in {"Running", "SaveError"}
    /\ q \in {"inserted", "db_error"}
    /\ ppc' = [ppc EXCEPT ![d] =
                  IF dbPool = "nil" THEN "Skipped"
                  ELSE IF PersistCtxDone(d) THEN "Aborted"
                  ELSE IF q = "inserted" THEN "Saved" ELSE "SaveError"]
    /\ bgCtx' = [bgCtx EXCEPT ![d] = IF @ = "live" THEN "canceled" ELSE @]
    /\ UNCHANGED <<batch, boot, inbound, call, config, env, apiSemaphore, dbPool, req, exchange, hpc,
                   gpc, ctx, holds,
                   resultChan, result, w>>

\* Variant of Save: a failed save is reported to a client not yet answered
SaveReportsFailure(d, q) ==
    /\ ppc[d] = "Running"
    /\ q \in {"inserted", "db_error"}
    /\ ppc' = [ppc EXCEPT ![d] =
                  IF dbPool = "nil" THEN "Skipped"
                  ELSE IF PersistCtxDone(d) THEN "Aborted"
                  ELSE IF q = "inserted" THEN "Saved" ELSE "SaveError"]
    /\ bgCtx' = [bgCtx EXCEPT ![d] = IF @ = "live" THEN "canceled" ELSE @]
    /\ w' = [w EXCEPT ![d] =
                  IF ppc'[d] \in {"SaveError", "Aborted"} /\ hpc[d] = "Done"
                  THEN WriteHeader(@, StatusInternalServerError) ELSE @]
    /\ UNCHANGED <<batch, boot, inbound, call, config, env, apiSemaphore, dbPool, req, exchange, hpc,
                   gpc, ctx, holds,
                   resultChan, result>>

\* Variant of Save: a nil pool makes the repository fail
SaveNeedsPool(d, q) ==
    /\ ppc[d] = "Running"
    /\ q \in {"inserted", "db_error"}
    /\ ppc' = [ppc EXCEPT ![d] =
                  IF dbPool = "nil" THEN "SaveError"
                  ELSE IF PersistCtxDone(d) THEN "Aborted"
                  ELSE IF q = "inserted" THEN "Saved" ELSE "SaveError"]
    /\ bgCtx' = [bgCtx EXCEPT ![d] = IF @ = "live" THEN "canceled" ELSE @]
    /\ UNCHANGED <<batch, boot, inbound, call, config, env, apiSemaphore, dbPool, req, exchange, hpc,
                   gpc, ctx, holds, resultChan, result, w>>

\* NewLeadRepository, SaveLead and the deferred bgCancel.
\* q is what the database does with the INSERT when it is reached in time.
Save(d, q) ==
    /\ ppc[d] = "Running"
    /\ q \in {"inserted", "db_error"}
    /\ ppc' = [ppc EXCEPT ![d] =
                  IF dbPool = "nil" THEN "Skipped"
                  ELSE IF PersistCtxDone(d) THEN "Aborted"
                  ELSE IF q = "inserted" THEN "Saved" ELSE "SaveError"]
    /\ bgCtx' = [bgCtx EXCEPT ![d] = IF @ = "live" THEN "canceled" ELSE @]
    /\ UNCHANGED <<batch, boot, inbound, call, config, env, apiSemaphore, dbPool, req, exchange, hpc,
                   gpc, ctx, holds,
                   resultChan, result, w>>

----------------------------------------------------------------------------
Next ==
    \E d \in Dispatches :
        \/ Admit(d)
        \/ RateLimitReject(d)
        \/ ClientDisconnect(d)
        \/ RequestDeadline(d)
        \/ \E k \in RequestKinds : ValidateFail(d, k)
        \/ \E k \in RequestKinds : ValidateOk(d, k)
        \/ Acquire(d)
        \/ \E o \in UpstreamOutcomes : UpstreamReturn(d, o)
        \/ Receive(d)
        \/ DecodeFail(d)
        \/ DecodeOk(d)
        \/ Respond(d)
        \/ BgDeadline(d)
        \/ \E q \in {"inserted", "db_error"} : Save(d, q)

Spec == Init /\ [][Next]_vars

\* The same program under a fair scheduler and an upstream whose every
\* started exchange ends: a goroutine that can take a step takes it, a
\* sender parked on apiSemaphore gets the slot that is freed again and again
Fairness ==
    \A d \in 1..NumDispatches :
        /\ SF_vars(Acquire(d))
        /\ WF_vars(\E o \in UpstreamOutcomes : UpstreamReturn(d, o))
        /\ WF_vars(Receive(d))
        /\ WF_vars(DecodeFail(d) \/ DecodeOk(d))
        /\ WF_vars(Respond(d))

SpecLive == Init /\ [][Next]_vars /\ Fairness

----------------------------------------------------------------------------
(* ValidateRequest on requests as they arrive: the value of the             *)
(* Content-Type header ("" when the header is absent) and what the body is. *)

ContentTypes == {"", "text/plain", "application/json; charset=utf-8", "application/json"}

InboundRequests ==
    {[contentType |-> t, body |-> b] :
        t \in ContentTypes, b \in {"undecodable", "invalid_field", "valid"}}

\* Variant of RequestKind: the body is decoded before the header is looked at
RequestKindDecodesFirst(r) ==
    IF r.body = "undecodable" THEN "undecodable"
    ELSE IF r.contentType # "application/json" THEN "bad_content_type"
    ELSE r.body

\* What ValidateRequest finds in request r: the header is compared first, with
\* the exact string; then the body is decoded; then the struct is validated
RequestKind(r) ==
    IF r.contentType # "application/json" THEN "bad_content_type"
    ELSE IF r.body = "undecodable" THEN "undecodable"
    ELSE IF r.body = "invalid_field" THEN "invalid_field"
    ELSE "valid"

InitValidate ==
    /\ config = [MaxConcurrentCalls |-> 1, APIBearerToken |-> RealToken]
    /\ apiSemaphore = [cap |-> 1, len |-> 0]
    /\ dbPool = "pool"
    /\ env = [HTTP_USER_AGENT |-> <<>>, HTTP_REFERER |-> <<>>]
    /\ req = [d \in 1..NumDispatches |-> "none"]
    /\ exchange = [d \in 1..NumDispatches |-> NoExchange]
    /\ hpc = [d \in 1..NumDispatches |-> "Idle"]
    /\ gpc = [d \in 1..NumDispatches |-> "None"]
    /\ ppc = [d \in 1..NumDispatches |-> "None"]
    /\ ctx = [d \in 1..NumDispatches |-> "none"]
    /\ bgCtx = [d \in 1..NumDispatches |-> "none"]
    /\ holds = [d \in 1..NumDispatches |-> FALSE]
    /\ resultChan = [d \in 1..NumDispatches |-> <<>>]
    /\ result = [d \in 1..NumDispatches |-> NoResult]
    /\ w = [d \in 1..NumDispatches |-> NoResponse]
    /\ call = <<>>
    /\ boot = Serving
    /\ batch = NoBatch
    /\ inbound \in [1..NumDispatches -> InboundRequests]

NextValidate ==
    \E d \in Dispatches :
        \/ Admit(d)
        \/ ValidateFail(d, RequestKind(inbound[d]))
        \/ ValidateOk(d, RequestKind(inbound[d]))

SpecValidate == InitValidate /\ [][NextValidate]_vars

----------------------------------------------------------------------------
(* validate.Struct on the numeric fields of a quick-quote vehicle: the       *)
(* rules of the struct tags, applied by go-playground/validator. A rule is  *)
(* a record [tag, param]; "required" holds for a number iff it is not the   *)
(* zero value of its type.                                                  *)

Rule(tag, param) == [tag |-> tag, param |-> param]

\* the validate tags of Vehicle.Year, Vehicle.AccessoriesAmount,
\* Vehicle.EngineSize, Address.PostalCode and Driver.YearsWithoutClaims
FieldRules ==
    [year |-> <<Rule("required", 0), Rule("min", 1900), Rule("max", 2100)>>,
     accessoriesAmount |-> <<Rule("required", 0), Rule("min", 0)>>,
     engineSize |-> <<Rule("required", 0), Rule("gt", 0)>>,
     postalCode |-> <<Rule("required", 0), Rule("min", 0)>>,
     yearsWithoutClaims |-> <<Rule("min", 0)>>]

\* one rule of a tag on a numeric value
RuleHolds(rule, v) ==
    IF rule.tag = "required" THEN v # 0
    ELSE IF rule.tag = "min" THEN v >= rule.param
    ELSE IF rule.tag = "max" THEN v <= rule.param
    ELSE IF rule.tag = "gt" THEN v > rule.param
    ELSE FALSE

\* all rules of a field hold
FieldValid(rules, v) == \A i \in DOMAIN rules : RuleHolds(rules[i], v)

\* validate.Struct(req) returns nil
ValidateStruct(fields) == \A f \in DOMAIN FieldRules : FieldValid(FieldRules[f], fields[f])

\* Vehicles of the requests tried: each numeric field at its named minimum,
\* below it and well inside its range
VehicleFields ==
    [year : {1899, 1900, 2020}, accessoriesAmount : {-1, 0, 1500}, engineSize : {0, 2},
     postalCode : {-1, 0, 2196}, yearsWithoutClaims : {-1, 0, 3}]

\* Quick-quote requests with the header, a body that decodes and these fields
QuoteRequests ==
    {[contentType |-> "application/json",
      body |-> IF ValidateStruct(v) THEN "valid" ELSE "invalid_field",
      fields |-> v] : v \in VehicleFields}

InitFields ==
    /\ config = [MaxConcurrentCalls |-> 1, APIBearerToken |-> RealToken]
    /\ apiSemaphore = [cap |-> 1, len |-> 0]
    /\ dbPool = "pool"
    /\ env = [HTTP_USER_AGENT |-> <<>>, HTTP_REFERER |-> <<>>]
    /\ req = [d \in 1..1 |-> "none"]
    /\ exchange = [d \in 1..1 |-> NoExchange]
    /\ hpc = [d \in 1..1 |-> "Idle"]
    /\ gpc = [d \in 1..1 |-> "None"]
    /\ ppc = [d \in 1..1 |-> "None"]
    /\ ctx = [d \in 1..1 |-> "none"]
    /\ bgCtx = [d \in 1..1 |-> "none"]
    /\ holds = [d \in 1..1 |-> FALSE]
    /\ resultChan = [d \in 1..1 |-> <<>>]
    /\ result = [d \in 1..1 |-> NoResult]
    /\ w = [d \in 1..1 |-> NoResponse]
    /\ call = <<>>
    /\ boot = Serving
    /\ batch = NoBatch
    /\ inbound \in [1..1 -> QuoteRequests]

NextFields ==
    \E d \in Dispatches :
        \/ Admit(d)
        \/ ValidateFail(d, RequestKind(inbound[d]))
        \/ ValidateOk(d, RequestKind(inbound[d]))

SpecFields == InitFields /\ [][NextFields]_vars

----------------------------------------------------------------------------
(* A burst: one request more than the gate has tokens, all valid, all       *)
(* arriving together in live mode; every exchange succeeds, and takes much  *)
(* longer than the requests need to arrive and much less than the request   *)
(* timeout, so no exchange returns before the last request is at the gate   *)
(* and no context ends.                                                     *)

BurstDispatches == 1..(BurstCapacity + 1)

\* the upstream answers 200 with a well-formed body
BurstOutcome == [net |-> "ok", status |-> StatusOK, body |-> "valid"]

\* every request of the burst has its goroutine started
BurstArrived == \A d \in Dispatches : gpc[d] # "None"

InitBurst ==
    /\ config = [MaxConcurrentCalls |-> BurstCapacity, APIBearerToken |-> RealToken]
    /\ apiSemaphore = [cap |-> BurstCapacity, len |-> 0]
    /\ dbPool = "pool"
    /\ env = [HTTP_USER_AGENT |-> <<>>, HTTP_REFERER |-> <<>>]
    /\ req = [d \in BurstDispatches |-> "none"]
    /\ exchange = [d \in BurstDispatches |-> NoExchange]
    /\ hpc = [d \in BurstDispatches |-> "Idle"]
    /\ gpc = [d \in BurstDispatches |-> "None"]
    /\ ppc = [d \in BurstDispatches |-> "None"]
    /\ ctx = [d \in BurstDispatches |-> "none"]
    /\ bgCtx = [d \in BurstDispatches |-> "none"]
    /\ holds = [d \in BurstDispatches |-> FALSE]
    /\ resultChan = [d \in BurstDispatches |-> <<>>]
    /\ result = [d \in BurstDispatches |-> NoResult]
    /\ w = [d \in BurstDispatches |-> NoResponse]
    /\ call = <<>>
    /\ boot = Serving
    /\ batch = NoBatch
    /\ inbound = <<>>

NextBurst ==
    \E d \in Dispatches :
        \/ Admit(d)
        \/ ValidateOk(d, "valid")
        \/ Acquire(d)
        \/ (BurstArrived /\ UpstreamReturn(d, BurstOutcome))
        \/ Receive(d)
        \/ DecodeOk(d)
        \/ Respond(d)
        \/ Save(d, "inserted")

SpecBurst == InitBurst /\ [][NextBurst]_vars

----------------------------------------------------------------------------
(* MakeAPIRequest called directly: the calls, their arguments and what each *)
(* call did, with no handler around it.                                     *)

\* Endpoints passed to MakeAPIRequest, as sequences of their pieces
LeadEndpoint == <<"http://gw-test.pineapple.co.za", "/users/motor_lead">>
QuoteEndpoint == <<"http://gw-test.pineapple.co.za", "/api/v1/quote/quick-quote">>
OtherEndpoint == <<"http://gw-test.pineapple.co.za", "/health">>

\* Values passed as body: two JSON objects that differ in first_name, a value
\* that marshals to a JSON array, and a value json.Marshal refuses
Payloads ==
    {[kind |-> "object", first_name |-> n] : n \in {"Peter", "Thandi"}}
    \cup {[kind |-> "array", first_name |-> "none"],
          [kind |-> "unserializable", first_name |-> "none"]}

\* The argument triples the calls are made with
CallInputs ==
    {[endpoint |-> LeadEndpoint, method |-> m, body |-> [kind |-> "object", first_name |-> "Peter"]] :
        m \in {"POST", "GET"}}
    \cup {[endpoint |-> LeadEndpoint, method |-> "POST", body |-> b] : b \in Payloads}
    \cup {[endpoint |-> QuoteEndpoint, method |-> "POST",
           body |-> [kind |-> "object", first_name |-> "Peter"]],
          [endpoint |-> OtherEndpoint, method |-> "POST",
           body |-> [kind |-> "object", first_name |-> "Thandi"]]}

\* time.Now().Unix() at two different seconds
Times == {1616598956, 1616598957}

\* What the exchange of a direct call does: the three network failures, and
\* answers with statuses around the 2xx range and two different bodies
CallOutcomes ==
    {[net |-> n, status |-> 0, body |-> "none"] : n \in {"error", "timeout", "readerr"}}
    \cup
    {[net |-> "ok", status |-> 101, body |-> "valid"],
     [net |-> "ok", status |-> 200, body |-> "valid"],
     [net |-> "ok", status |-> 200, body |-> "undecodable"],
     [net |-> "ok", status |-> 299, body |-> "undecodable"],
     [net |-> "ok", status |-> 300, body |-> "valid"],
     [net |-> "ok", status |-> 503, body |-> "undecodable"]}

NoOutcome == [net |-> "none", status |-> 0, body |-> "none"]
NoDetail == [status |-> 0, body |-> "none"]
NoReturn == [err |-> "unset", body |-> "none", msg |-> NoDetail]

\* json.Marshal(body)
JsonMarshal(b) ==
    IF b.kind = "unserializable"
    THEN [err |-> "marshal_error", json |-> "none"]
    ELSE [err |-> "none", json |-> b]

\* Variant of CreateMockResponse: the method finds its way into the response
CreateMockResponseEchoesMethod(endpoint, method, jsonBody, now) ==
    IF StrContains(endpoint, "/users/motor_lead")
    THEN IF jsonBody.kind # "object"
         THEN [err |-> "unmarshal_error", body |-> "none", msg |-> NoDetail]
         ELSE [err |-> "none",
               body |-> [success |-> TRUE, shape |-> "lead", id |-> now,
                         name |-> <<jsonBody.first_name, method>>],
               msg |-> NoDetail]
    ELSE IF StrContains(endpoint, "/api/v1/quote/quick-quote")
    THEN [err |-> "none",
          body |-> [success |-> TRUE, shape |-> "quote", id |-> now, name |-> <<method>>],
          msg |-> NoDetail]
    ELSE [err |-> "none",
          body |-> [success |-> TRUE, shape |-> "message", id |-> 0, name |-> <<method>>],
          msg |-> NoDetail]

\* Variant of CreateMockResponse: the quote mock carries no identifier
CreateMockResponseQuoteWithoutId(endpoint, method, jsonBody, now) ==
    IF StrContains(endpoint, "/users/motor_lead")
    THEN IF jsonBody.kind # "object"
         THEN [err |-> "unmarshal_error", body |-> "none", msg |-> NoDetail]
         ELSE [err |-> "none",
               body |-> [success |-> TRUE, shape |-> "lead", id |-> now,
                         name |-> <<jsonBody.first_name>>],
               msg |-> NoDetail]
    ELSE IF StrContains(endpoint, "/api/v1/quote/quick-quote")
    THEN [err |-> "none",
          body |-> [success |-> TRUE, shape |-> "quote", id |-> 0, name |-> <<>>],
          msg |-> NoDetail]
    ELSE [err |-> "none",
          body |-> [success |-> TRUE, shape |-> "message", id |-> 0, name |-> <<>>],
          msg |-> NoDetail]

\* createMockResponse: the lead mock carries "swagger-doc-uuid-<now>" and
\* the first_name of the request, the quote mock "swagger-doc-quote-<now>"
\* and fixed amounts, any other endpoint gets a fixed message
CreateMockResponse(endpoint, method, jsonBody, now) ==
    IF StrContains(endpoint, "/users/motor_lead")
    THEN IF jsonBody.kind # "object"
         THEN [err |-> "unmarshal_error", body |-> "none", msg |-> NoDetail]
         ELSE [err |-> "none",
               body |-> [success |-> TRUE, shape |-> "lead", id |-> now,
                         name |-> <<jsonBody.first_name>>],
               msg |-> NoDetail]
    ELSE IF StrContains(endpoint, "/api/v1/quote/quick-quote")
    THEN [err |-> "none",
          body |-> [success |-> TRUE, shape |-> "quote", id |-> now, name |-> <<>>],
          msg |-> NoDetail]
    ELSE [err |-> "none",
          body |-> [success |-> TRUE, shape |-> "message", id |-> 0, name |-> <<>>],
          msg |-> NoDetail]

\* What the error of a non-2xx answer is formatted from: "%d, body: %s"
ErrorDetail(o) ==
    IF o.net = "ok" /\ (o.status < 200 \/ o.status >= 300)
    THEN [status |-> o.status, body |-> o.body]
    ELSE NoDetail

\* Variant of MakeAPIRequest: the mode is also taken from the request
MakeAPIRequestSniffsRequest(k, cfg, e, now) ==
    LET j == JsonMarshal(k.body)
    IN IF j.err # "none"
       THEN [k EXCEPT !.pc = "Returned",
                      !.ret = [err |-> j.err, body |-> "none", msg |-> NoDetail]]
       ELSE IF IsSwaggerRequest(cfg, e) \/ k.method = "GET"
       THEN [k EXCEPT !.pc = "Returned", !.mode = "mock",
                      !.ret = CreateMockResponse(k.endpoint, k.method, j.json, now)]
       ELSE [k EXCEPT !.pc = "Calling", !.mode = "live", !.acquired = TRUE, !.sent = TRUE]

\* Variant of MakeAPIRequest: the token is acquired before the mode is looked at
MakeAPIRequestGateBeforeMode(k, cfg, e, now) ==
    LET j == JsonMarshal(k.body)
    IN IF j.err # "none"
       THEN [k EXCEPT !.pc = "Returned",
                      !.ret = [err |-> j.err, body |-> "none", msg |-> NoDetail]]
       ELSE IF IsSwaggerRequest(cfg, e)
       THEN [k EXCEPT !.pc = "Returned", !.mode = "mock", !.acquired = TRUE,
                      !.ret = CreateMockResponse(k.endpoint, k.method, j.json, now)]
       ELSE [k EXCEPT !.pc = "Calling", !.mode = "live", !.acquired = TRUE, !.sent = TRUE]

\* Variant of MakeAPIRequest: the token is acquired before the body is marshalled
MakeAPIRequestGateBeforeMarshal(k, cfg, e, now) ==
    LET j == JsonMarshal(k.body)
    IN IF j.err # "none"
       THEN [k EXCEPT !.pc = "Returned", !.acquired = TRUE,
                      !.ret = [err |-> j.err, body |-> "none", msg |-> NoDetail]]
       ELSE IF IsSwaggerRequest(cfg, e)
       THEN [k EXCEPT !.pc = "Returned", !.mode = "mock", !.acquired = TRUE,
                      !.ret = CreateMockResponse(k.endpoint, k.method, j.json, now)]
       ELSE [k EXCEPT !.pc = "Calling", !.mode = "live", !.acquired = TRUE, !.sent = TRUE]

\* MakeAPIRequest from its entry to the send on apiSemaphore and the call of
\* httpClient.Do: marshal, choice of the mode, mock response or acquisition
MakeAPIRequest(k, cfg, e, now) ==
    LET j == JsonMarshal(k.body)
    IN IF j.err # "none"
       THEN [k EXCEPT !.pc = "Returned",
                      !.ret = [err |-> j.err, body |-> "none", msg |-> NoDetail]]
       ELSE IF IsSwaggerRequest(cfg, e)
       THEN [k EXCEPT !.pc = "Returned", !.mode = "mock",
                      !.ret = CreateMockResponse(k.endpoint, k.method, j.json, now)]
       ELSE [k EXCEPT !.pc = "Calling", !.mode = "live", !.acquired = TRUE, !.sent = TRUE]

\* The process states the direct calls are made in: a real credential with
\* capacity 1 and MaxCapacity, the documentation token, and a real
\* credential in a process whose environment names Swagger
CallStartups ==
    {[cap |-> c, token |-> RealToken, ua |-> <<>>, referer |-> <<>>] : c \in {1, MaxCapacity}}
    \cup {[cap |-> 1, token |-> SwaggerToken, ua |-> <<>>, referer |-> <<>>],
          [cap |-> 1, token |-> RealToken, ua |-> <<"Mozilla/5.0 ", "Swagger", "-UI">>,
           referer |-> <<>>],
          [cap |-> 1, token |-> RealToken, ua |-> <<>>,
           referer |-> <<"http://localhost:9000", "/swagger/", "index.html">>]}

InitCall ==
    /\ \E s \in CallStartups :
          /\ config = [MaxConcurrentCalls |-> s.cap, APIBearerToken |-> s.token]
          /\ apiSemaphore = [cap |-> s.cap, len |-> 0]
          /\ env = [HTTP_USER_AGENT |-> s.ua, HTTP_REFERER |-> s.referer]
    /\ dbPool = "pool"
    /\ req = [d \in 1..NumDispatches |-> "none"]
    /\ exchange = [d \in 1..NumDispatches |-> NoExchange]
    /\ hpc = [d \in 1..NumDispatches |-> "Idle"]
    /\ gpc = [d \in 1..NumDispatches |-> "None"]
    /\ ppc = [d \in 1..NumDispatches |-> "None"]
    /\ ctx = [d \in 1..NumDispatches |-> "none"]
    /\ bgCtx = [d \in 1..NumDispatches |-> "none"]
    /\ holds = [d \in 1..NumDispatches |-> FALSE]
    /\ resultChan = [d \in 1..NumDispatches |-> <<>>]
    /\ result = [d \in 1..NumDispatches |-> NoResult]
    /\ w = [d \in 1..NumDispatches |-> NoResponse]
    /\ \E args \in [1..NumCalls -> CallInputs] :
          call = [c \in 1..NumCalls |->
                     [endpoint |-> args[c].endpoint, method |-> args[c].method,
                      body |-> args[c].body,
                      pc |-> "Start", mode |-> "none", acquired |-> FALSE, sent |-> FALSE,
                      exch |-> NoOutcome, ret |-> NoReturn]]
    /\ boot = Serving
    /\ batch = NoBatch
    /\ inbound = <<>>

\* Call c runs from its entry to its first blocking point; the send on
\* apiSemaphore needs room in the buffer
CallStart(c, now) ==
    /\ call[c].pc = "Start"
    /\ LET k == MakeAPIRequest(call[c], config, env, now)
       IN /\ k.acquired => SemCanSend(apiSemaphore)
          /\ apiSemaphore' = IF k.pc = "Calling" THEN SemSend(apiSemaphore) ELSE apiSemaphore
          /\ call' = [call EXCEPT ![c] = k]
    /\ UNCHANGED <<batch, boot, inbound, config, env, dbPool, req, exchange, hpc, gpc, ppc, ctx,
                   bgCtx, holds,
                   resultChan, result, w>>

\* The exchange of call c ends with outcome o and MakeAPIRequest returns
CallReturn(c, o) ==
    /\ call[c].pc = "Calling"
    /\ LET r == APIResponse(o)
       IN /\ apiSemaphore' = ReleaseOnReturn(apiSemaphore, r)
          /\ call' = [call EXCEPT ![c] =
                         [@ EXCEPT !.pc = "Returned", !.exch = o,
                                   !.ret = [err |-> r.err, body |-> r.body,
                                            msg |-> ErrorDetail(o)]]]
    /\ UNCHANGED <<batch, boot, inbound, config, env, dbPool, req, exchange, hpc, gpc, ppc, ctx,
                   bgCtx, holds,
                   resultChan, result, w>>

NextCall ==
    \E c \in DOMAIN call :
        \/ \E now \in Times : CallStart(c, now)
        \/ \E o \in CallOutcomes : CallReturn(c, o)

SpecCall == InitCall /\ [][NextCall]_vars

Calls == DOMAIN call

----------------------------------------------------------------------------
(* A handler around MakeAPIRequest: the lead or the quote handler calls it  *)
(* with its configured endpoint, decodes the bytes it returns into its      *)
(* response struct, checks the success flag and the identifier (data.uuid   *)
(* of a lead, id of a quote), answers and hands the pair to persistence.    *)
(* A response body is [success, shape, id, name]: shape tells what "data"   *)
(* is (an object for "lead", an array for "quote", absent for "message",    *)
(* no JSON at all for "garbage"), id 0 is the empty identifier.             *)

Handlers == {"lead", "quote"}

\* the path createMockResponse looks for in the endpoint of each handler
HandlerPath(h) == IF h = "lead" THEN "/users/motor_lead" ELSE "/api/v1/quote/quick-quote"

\* LEAD_TRANSFER_ENDPOINT / QUICK_QUOTE_ENDPOINT: the default, and the same
\* service behind another URL
ConfiguredEndpoints(h) ==
    {IF h = "lead" THEN LeadEndpoint ELSE QuoteEndpoint,
     IF h = "lead" THEN <<"https://leads.example.co.za", "/v2/motor-lead">>
     ELSE <<"https://quotes.example.co.za", "/v2/quick">>}

\* what the upstream of handler h may answer
HandleOutcomes(h) ==
    {[net |-> "error", status |-> 0, body |-> "none"],
     [net |-> "ok", status |-> 503,
      body |-> [success |-> FALSE, shape |-> "garbage", id |-> 0, name |-> <<>>]]}
    \cup
    {[net |-> "ok", status |-> StatusOK, body |-> b] :
        b \in {[success |-> TRUE, shape |-> h, id |-> 4711, name |-> <<>>],
               [success |-> FALSE, shape |-> h, id |-> 4711, name |-> <<>>],
               [success |-> TRUE, shape |-> h, id |-> 0, name |-> <<>>],
               [success |-> FALSE, shape |-> "garbage", id |-> 0, name |-> <<>>]}}

NoAnswer == [status |-> 0, msg |-> "none", id |-> 0]

\* Variant of HandleOutcome: the identifier is not looked at
HandleOutcomeChecksFlagOnly(h, ret) ==
    IF ret.err # "none"
    THEN [answer |-> [status |-> StatusInternalServerError, msg |-> "call_error", id |-> 0],
          persist |-> 0]
    ELSE IF ret.body.shape \notin {h, "message"}
    THEN [answer |-> [status |-> StatusInternalServerError, msg |-> "decode_error", id |-> 0],
          persist |-> 0]
    ELSE IF ~ret.body.success
    THEN [answer |-> [status |-> StatusInternalServerError, msg |-> "invalid_response",
                      id |-> 0],
          persist |-> 0]
    ELSE [answer |-> [status |-> StatusOK, msg |-> "payload", id |-> ret.body.id],
          persist |-> ret.body.id]

\* The handler h from the receipt of MakeAPIRequest's return ret to its own
\* return: the error check, json.Unmarshal into the response struct (which
\* fails when "data" has the other handler's type), the check of success
\* and identifier, the start of the persistence goroutine and the answer
HandleOutcome(h, ret) ==
    IF ret.err # "none"
    THEN [answer |-> [status |-> StatusInternalServerError, msg |-> "call_error", id |-> 0],
          persist |-> 0]
    ELSE IF ret.body.shape \notin {h, "message"}
    THEN [answer |-> [status |-> StatusInternalServerError, msg |-> "decode_error", id |-> 0],
          persist |-> 0]
    ELSE IF ~ret.body.success \/ ret.body.shape = "message" \/ ret.body.id = 0
    THEN [answer |-> [status |-> StatusInternalServerError, msg |-> "invalid_response",
                      id |-> 0],
          persist |-> 0]
    ELSE [answer |-> [status |-> StatusOK, msg |-> "payload", id |-> ret.body.id],
          persist |-> ret.body.id]

InitHandle ==
    /\ \E t \in {RealToken, SwaggerToken} :
          config = [MaxConcurrentCalls |-> 1, APIBearerToken |-> t]
    /\ apiSemaphore = [cap |-> 1, len |-> 0]
    /\ env = [HTTP_USER_AGENT |-> <<>>, HTTP_REFERER |-> <<>>]
    /\ dbPool = "pool"
    /\ req = [d \in 1..NumDispatches |-> "none"]
    /\ exchange = [d \in 1..NumDispatches |-> NoExchange]
    /\ hpc = [d \in 1..NumDispatches |-> "Idle"]
    /\ gpc = [d \in 1..NumDispatches |-> "None"]
    /\ ppc = [d \in 1..NumDispatches |-> "None"]
    /\ ctx = [d \in 1..NumDispatches |-> "none"]
    /\ bgCtx = [d \in 1..NumDispatches |-> "none"]
    /\ holds = [d \in 1..NumDispatches |-> FALSE]
    /\ resultChan = [d \in 1..NumDispatches |-> <<>>]
    /\ result = [d \in 1..NumDispatches |-> NoResult]
    /\ w = [d \in 1..NumDispatches |-> NoResponse]
    /\ \E hs \in [1..NumCalls -> Handlers] :
       \E es \in [1..NumCalls -> UNION {ConfiguredEndpoints(h) : h \in Handlers}] :
          /\ \A c \in 1..NumCalls : es[c] \in ConfiguredEndpoints(hs[c])
          /\ call = [c \in 1..NumCalls |->
                       [handler |-> hs[c], endpoint |-> es[c], method |-> "POST",
                        body |-> [kind |-> "object", first_name |-> "Peter"],
                        pc |-> "Start", mode |-> "none", acquired |-> FALSE, sent |-> FALSE,
                        exch |-> NoOutcome, ret |-> NoReturn,
                        answer |-> NoAnswer, persist |-> 0]]
    /\ boot = Serving
    /\ batch = NoBatch
    /\ inbound = <<>>

\* the handler of call c takes the return of MakeAPIRequest and finishes
Handle(c) ==
    /\ call[c].pc = "Returned"
    /\ LET h == HandleOutcome(call[c].handler, call[c].ret)
       IN call' = [call EXCEPT ![c] =
                      [@ EXCEPT !.pc = "Handled", !.answer = h.answer, !.persist = h.persist]]
    /\ UNCHANGED <<batch, boot, inbound, config, env, apiSemaphore, dbPool, req, exchange, hpc, gpc,
                   ppc, ctx, bgCtx, holds, resultChan, result, w>>

NextHandle ==
    \E c \in DOMAIN call :
        \/ \E now \in Times : CallStart(c, now)
        \/ \E o \in HandleOutcomes(call[c].handler) : CallReturn(c, o)
        \/ Handle(c)

SpecHandle == InitHandle /\ [][NextHandle]_vars

----------------------------------------------------------------------------
(* ProcessAPIRequests: the loop that starts one goroutine per request        *)
(* function, the goroutines, the WaitGroup and the results slice. Request   *)
(* function i, when it is run, returns the body i or fails.                 *)

\* what request function i returns: kind "ok" is (body i, nil), "fail" an error
FnResult(i, kind) ==
    IF kind = "ok" THEN [err |-> "none", body |-> i] ELSE [err |-> "send_error", body |-> 0]

\* the zero APIResult of make([]APIResult, n)
ZeroResult == [err |-> "none", body |-> 0]

\* Variant of GoIndex: the goroutine reads the loop variable instead of
\* its own argument
GoIndexOfLoop(index, loop) == loop

\* go func(index int, ...) {...}(i, req): the goroutine writes results[index],
\* the value i had when it was started
GoIndex(index, loop) == index

InitBatch ==
    /\ \E n \in 0..MaxBatch : \E fns \in [1..n -> {"ok", "fail"}] :
          \E c \in {"live", "canceled"} :
            batch = [pc |-> "Loop", i |-> 1, requests |-> fns, ctx |-> c, wg |-> 0,
                     gp |-> [j \in 1..n |-> "none"],
                     results |-> [j \in 1..n |-> ZeroResult],
                     writers |-> [j \in 1..n |-> {}],
                     returned |-> <<>>]
    /\ config = [MaxConcurrentCalls |-> 1, APIBearerToken |-> RealToken]
    /\ apiSemaphore = [cap |-> 1, len |-> 0]
    /\ env = [HTTP_USER_AGENT |-> <<>>, HTTP_REFERER |-> <<>>]
    /\ dbPool = "pool"
    /\ req = <<>>
    /\ exchange = <<>>
    /\ hpc = <<>>
    /\ gpc = <<>>
    /\ ppc = <<>>
    /\ ctx = <<>>
    /\ bgCtx = <<>>
    /\ holds = <<>>
    /\ resultChan = <<>>
    /\ result = <<>>
    /\ w = <<>>
    /\ call = <<>>
    /\ boot = Serving
    /\ inbound = <<>>

BatchFrame ==
    UNCHANGED <<config, env, apiSemaphore, dbPool, req, exchange, hpc, gpc, ppc, ctx, bgCtx,
                holds, resultChan, result, w, call, boot, inbound>>

\* the context given to ProcessAPIRequests is cancelled
BatchCancel ==
    /\ batch.pc \in {"Loop", "Wait"}
    /\ batch.ctx = "live"
    /\ batch' = [batch EXCEPT !.ctx = "canceled"]
    /\ BatchFrame

\* one turn of the loop: wg.Add(1) and the go statement; after the last
\* turn the caller is at wg.Wait()
BatchSpawn ==
    /\ batch.pc = "Loop"
    /\ IF batch.i > Len(batch.requests)
       THEN batch' = [batch EXCEPT !.pc = "Wait"]
       ELSE batch' = [batch EXCEPT !.wg = @ + 1, !.gp[batch.i] = "started", !.i = @ + 1]
    /\ BatchFrame

\* goroutine j: the select on ctx.Done(); with a done context it writes the
\* context's error into its element and returns (deferred wg.Done)
BatchSelect(j) ==
    /\ batch.gp[j] = "started"
    /\ IF CtxDone(batch.ctx)
       THEN batch' = [batch EXCEPT
                         !.results[GoIndex(j, batch.i)] =
                             [err |-> CtxErr(batch.ctx), body |-> 0],
                         !.writers[GoIndex(j, batch.i)] = @ \cup {j},
                         !.gp[j] = "skipped", !.wg = @ - 1]
       ELSE batch' = [batch EXCEPT !.gp[j] = "running"]
    /\ BatchFrame

\* goroutine j: apiRequest() returns, the goroutine writes its element and
\* returns (deferred wg.Done)
BatchFinish(j) ==
    /\ batch.gp[j] = "running"
    /\ batch' = [batch EXCEPT
                     !.results[GoIndex(j, batch.i)] = FnResult(j, batch.requests[j]),
                     !.writers[GoIndex(j, batch.i)] = @ \cup {j},
                     !.gp[j] = "finished", !.wg = @ - 1]
    /\ BatchFrame

\* Variant of WaitOver: the caller does not wait
WaitOverAtOnce(b) == TRUE

\* wg.Wait() returns when the counter is zero
WaitOver(b) == b.wg = 0

\* wg.Wait() has returned: return results
BatchReturn ==
    /\ batch.pc = "Wait"
    /\ WaitOver(batch)
    /\ batch' = [batch EXCEPT !.pc = "Returned", !.returned = batch.results]
    /\ BatchFrame

NextBatch ==
    \/ BatchCancel
    \/ BatchSpawn
    \/ \E j \in DOMAIN batch.gp : BatchSelect(j)
    \/ \E j \in DOMAIN batch.gp : BatchFinish(j)
    \/ BatchReturn

SpecBatch == InitBatch /\ [][NextBatch]_vars

----------------------------------------------------------------------------
(* The start of the process: the environment it is started with, the .env   *)
(* file in its directory, the package initialisers (which run before main)  *)
(* and main up to the point where it serves. REQUEST_TIMEOUT and            *)
(* MAX_CONCURRENT_CALLS are kept as the sequence of their characters,       *)
(* <<>> when unset; API_BEARER_TOKEN is a string, "" when unset.            *)

PersistenceTimeout == 10          \* seconds, context of the persistence goroutine
DefaultRequestTimeout == 30       \* seconds
DefaultMaxConcurrentCalls == 10

TemporaryToken == "temporary_development_token"

DigitChars == <<"0", "1", "2", "3", "4", "5", "6", "7", "8", "9">>

IsDigit(ch) == \E i \in DOMAIN DigitChars : DigitChars[i] = ch

DigitVal(ch) == (CHOOSE i \in DOMAIN DigitChars : DigitChars[i] = ch) - 1

RECURSIVE ParseDigits(_, _)
ParseDigits(str, acc) ==
    IF str = <<>> THEN acc ELSE ParseDigits(Tail(str), acc * 10 + DigitVal(Head(str)))

\* strconv.Atoi: an optional sign and at least one decimal digit, nothing else
Atoi(str) ==
    LET signed == str # <<>> /\ Head(str) \in {"+", "-"}
        digits == IF signed THEN Tail(str) ELSE str
    IN IF digits = <<>> \/ \E i \in DOMAIN digits : ~IsDigit(digits[i])
       THEN [ok |-> FALSE, n |-> 0]
       ELSE [ok |-> TRUE,
             n |-> IF signed /\ Head(str) = "-"
                   THEN 0 - ParseDigits(digits, 0) ELSE ParseDigits(digits, 0)]

\* getEnv: the value of the variable, the default when it is unset or empty
getEnv(value, defaultValue) == IF value = "" THEN defaultValue ELSE value

\* getEnvAsInt: the default when the variable is unset or Atoi fails
getEnvAsInt(valueStr, defaultValue) ==
    IF valueStr = <<>> THEN defaultValue
    ELSE IF ~Atoi(valueStr).ok THEN defaultValue
    ELSE Atoi(valueStr).n

\* the package variable `config` before the first GetConfig
NoConfig == [MaxConcurrentCalls |-> 0, RequestTimeout |-> 0, APIBearerToken |-> "unbuilt"]

\* what configOnce.Do builds from the environment e
ReadConfig(e) ==
    [APIBearerToken |-> getEnv(e.API_BEARER_TOKEN, ""),
     RequestTimeout |-> getEnvAsInt(e.REQUEST_TIMEOUT, DefaultRequestTimeout),
     MaxConcurrentCalls |-> getEnvAsInt(e.MAX_CONCURRENT_CALLS, DefaultMaxConcurrentCalls)]

\* Variant of GetConfig: no sync.Once, the environment is read at every call
GetConfigRereads(cfg, e) == ReadConfig(e)

\* GetConfig: builds the configuration at the first call, returns the same
\* object at every later one
GetConfig(cfg, e) == IF cfg = NoConfig THEN ReadConfig(e) ELSE cfg

\* Variant of PersistenceDeadline: the goroutine is given the request timeout
PersistenceDeadlineOfRequest(cfg) == cfg.RequestTimeout

\* context.WithTimeout(context.Background(), 10*time.Second) of the
\* persistence goroutine
PersistenceDeadline(cfg) == PersistenceTimeout

\* context.WithTimeout(r.Context(), RequestTimeout seconds) of the handler
RequestDeadlineOf(cfg) == cfg.RequestTimeout

\* godotenv.Load: a variable of the file is set unless the environment has it
LoadDotenv(e, file) ==
    [e EXCEPT !.API_BEARER_TOKEN = IF @ = "" THEN file.API_BEARER_TOKEN ELSE @,
              !.REQUEST_TIMEOUT = IF @ = <<>> THEN file.REQUEST_TIMEOUT ELSE @,
              !.MAX_CONCURRENT_CALLS = IF @ = <<>> THEN file.MAX_CONCURRENT_CALLS ELSE @]

\* The environments a process is started with and the .env files it finds
\* (a missing file is the file that sets nothing)
StartEnvs ==
    {[API_BEARER_TOKEN |-> t, REQUEST_TIMEOUT |-> rt, MAX_CONCURRENT_CALLS |-> mc,
      HTTP_USER_AGENT |-> <<>>, HTTP_REFERER |-> <<>>] :
        t \in {"", RealToken}, rt \in {<<>>, <<"5">>},
        mc \in {<<>>, <<"2">>, <<"t", "e", "n">>, <<"-", "1">>}}

DotenvFiles ==
    {[API_BEARER_TOKEN |-> t, REQUEST_TIMEOUT |-> rt, MAX_CONCURRENT_CALLS |-> mc] :
        t \in {"", RealToken}, rt \in {<<>>, <<"6", "0">>}, mc \in {<<>>, <<"1">>}}

\* the request every served call forwards
ServedCall ==
    [endpoint |-> LeadEndpoint, method |-> "POST",
     body |-> [kind |-> "object", first_name |-> "Peter"],
     pc |-> "Start", mode |-> "none", acquired |-> FALSE, sent |-> FALSE,
     exch |-> NoOutcome, ret |-> NoReturn]

InitStart ==
    /\ \E e \in StartEnvs, f \in DotenvFiles :
          /\ env = e
          /\ boot = [pc |-> "Start", startEnv |-> e, dotenv |-> f, first |-> NoConfig,
                     httpClientTimeout |-> 0, middlewareTimeout |-> 0,
                     requestDeadline |-> 0, persistenceDeadline |-> 0,
                     temporaryToken |-> FALSE]
    /\ config = NoConfig
    /\ apiSemaphore = [cap |-> 0, len |-> 0]
    /\ dbPool = "nil"
    /\ req = [d \in 1..NumDispatches |-> "none"]
    /\ exchange = [d \in 1..NumDispatches |-> NoExchange]
    /\ hpc = [d \in 1..NumDispatches |-> "Idle"]
    /\ gpc = [d \in 1..NumDispatches |-> "None"]
    /\ ppc = [d \in 1..NumDispatches |-> "None"]
    /\ ctx = [d \in 1..NumDispatches |-> "none"]
    /\ bgCtx = [d \in 1..NumDispatches |-> "none"]
    /\ holds = [d \in 1..NumDispatches |-> FALSE]
    /\ resultChan = [d \in 1..NumDispatches |-> <<>>]
    /\ result = [d \in 1..NumDispatches |-> NoResult]
    /\ w = [d \in 1..NumDispatches |-> NoResponse]
    /\ call = [c \in 1..NumCalls |-> ServedCall]
    /\ inbound = <<>>
    /\ batch = NoBatch

\* utils.init, run before main: the first GetConfig, the HTTP client and the
\* semaphore; make(chan struct{}, n) panics for a negative n
PackageInit ==
    /\ boot.pc = "Start"
    /\ LET c == GetConfig(config, env)
       IN /\ config' = c
          /\ IF c.MaxConcurrentCalls < 0
             THEN /\ boot' = [boot EXCEPT !.pc = "Panicked", !.first = c,
                                          !.httpClientTimeout = c.RequestTimeout]
                  /\ UNCHANGED apiSemaphore
             ELSE /\ boot' = [boot EXCEPT !.pc = "Inited", !.first = c,
                                          !.httpClientTimeout = c.RequestTimeout]
                  /\ apiSemaphore' = [cap |-> c.MaxConcurrentCalls, len |-> 0]
    /\ UNCHANGED <<batch, env, dbPool, req, exchange, hpc, gpc, ppc, ctx, bgCtx, holds,
                   resultChan, result, w, call, inbound>>

\* main: godotenv.Load()
MainLoadDotenv ==
    /\ boot.pc = "Inited"
    /\ env' = LoadDotenv(env, boot.dotenv)
    /\ boot' = [boot EXCEPT !.pc = "Loaded"]
    /\ UNCHANGED <<batch, config, apiSemaphore, dbPool, req, exchange, hpc, gpc, ppc, ctx, bgCtx,
                   holds, resultChan, result, w, call, inbound>>

\* main: the check of API_BEARER_TOKEN; an unset token is replaced in the
\* environment by the temporary development token
MainCheckToken ==
    /\ boot.pc = "Loaded"
    /\ IF env.API_BEARER_TOKEN = ""
       THEN /\ env' = [env EXCEPT !.API_BEARER_TOKEN = TemporaryToken]
            /\ boot' = [boot EXCEPT !.pc = "Checked", !.temporaryToken = TRUE]
       ELSE /\ boot' = [boot EXCEPT !.pc = "Checked"]
            /\ UNCHANGED env
    /\ UNCHANGED <<batch, config, apiSemaphore, dbPool, req, exchange, hpc, gpc, ppc, ctx, bgCtx,
                   holds, resultChan, result, w, call, inbound>>

\* main: ValidateConfig (a warning at most), InitDB with outcome p (the
\* process goes on without a pool), the Timeout middleware and the routes,
\* whose handlers take their deadlines from GetConfig
MainServe(p) ==
    /\ boot.pc = "Checked"
    /\ LET c == GetConfig(config, env)
       IN /\ config' = c
          /\ boot' = [boot EXCEPT !.pc = "Serving",
                                  !.middlewareTimeout = c.RequestTimeout,
                                  !.requestDeadline = RequestDeadlineOf(c),
                                  !.persistenceDeadline = PersistenceDeadline(c)]
    /\ dbPool' = p
    /\ UNCHANGED <<batch, env, apiSemaphore, req, exchange, hpc, gpc, ppc, ctx, bgCtx, holds,
                   resultChan, result, w, call, inbound>>

NextStart ==
    \/ PackageInit
    \/ MainLoadDotenv
    \/ MainCheckToken
    \/ \E p \in {"nil", "pool"} : MainServe(p)
    \/ \E c \in DOMAIN call :
          \/ (boot.pc = "Serving" /\ CallStart(c, 1616598956))
          \/ CallReturn(c, [net |-> "ok", status |-> StatusOK, body |-> "valid"])

SpecStart == InitStart /\ [][NextStart]_vars

----------------------------------------------------------------------------
(* Vocabulary of the properties *)

\* Dispatches between the send on apiSemaphore and the return of MakeAPIRequest
Holders == {d \in Dispatches : holds[d]}

Finished(d) == hpc[d] = "Finished"

\* The dispatcher states of the design
Failed(d) == Finished(d) /\ w[d].status # StatusOK
Completed(d) == hpc[d] = "Done" \/ (Finished(d) /\ w[d].status = StatusOK)

\* The upstream call of d ran into httpClient.Timeout
CallTimedOut(d) == exchange[d].net = "timeout"

\* close(resultChan) is deferred in the goroutine: the channel is closed
\* when the goroutine has returned
ResultChanClosed(d) == gpc[d] = "Exit"

\* The handler of d has taken the APIResult out of resultChan
Received(d) == hpc[d] \in {"Decoding", "Done", "Finished"} /\ gpc[d] = "Exit"

\* The error MakeAPIRequestAsync hands to the handler of d, from d's own
\* context and d's own exchange
OwnError(d) ==
    IF exchange[d] = NoExchange
    THEN {"context_canceled", "context_deadline_exceeded"}
    ELSE {APIResponse([net |-> exchange[d].net, status |-> exchange[d].status,
                       body |-> "valid"]).err}

\* The persistence goroutine of d has come to its end
PersistenceEnded(d) == ppc[d] \in {"Saved", "SaveError", "Aborted", "Skipped"}

\* Something went wrong on the way of d: validation, the exchange with the
\* upstream, its status, or the body it sent
FailureCause(d) ==
    \/ req[d] \in RequestKinds \ {"valid"}
    \/ exchange[d].net \in {"error", "timeout", "readerr"}
    \/ exchange[d].net = "ok" /\ (exchange[d].status < 200 \/ exchange[d].status >= 300)
    \/ result[d].body \in {"undecodable", "unsuccessful"}

----------------------------------------------------------------------------
(* C1: at any moment the number of dispatches holding a gate token is at
   most the configured capacity MaxConcurrentCalls. *)
C1_GateBound == Cardinality(Holders) <= config.MaxConcurrentCalls

\* the gate is full and a further dispatch is waiting at it
C1_Witness ==
    /\ config.MaxConcurrentCalls >= 1
    /\ Cardinality(Holders) = config.MaxConcurrentCalls
    /\ \E d \in Dispatches : gpc[d] = "Gated"

(* C2: the tokens in the semaphore are exactly the acquisitions not yet
   released, and once every dispatch has finished the gate is empty. *)
C2_NoTokenLeak ==
    /\ apiSemaphore.len = Cardinality(Holders)
    /\ (\A d \in Dispatches : Finished(d)) => apiSemaphore.len = 0

\* everything has finished, after a timed-out call and a completed one
C2_Witness ==
    /\ \A d \in Dispatches : Finished(d)
    /\ \E d \in Dispatches : CallTimedOut(d)
    /\ \E d \in Dispatches : exchange[d].net = "ok"
    /\ apiSemaphore.len = 0

(* C3: a dispatch blocked at the full gate whose request context is
   cancelled or expired never acquires a token afterwards. *)
C3_GateWaitEndsWithContext ==
    [][\A d \in Dispatches :
          (gpc[d] = "Gated" /\ CtxDone(ctx[d])) => gpc'[d] # "Calling"]_vars

(* C4: an upstream call in flight when the request context is cancelled or
   expires ends with an error for the caller. *)
C4_CallAbortedWithContext ==
    [][\A d \in Dispatches :
          (gpc[d] = "Calling" /\ CtxDone(ctx[d]) /\ gpc'[d] = "Exit")
              => Head(resultChan'[d]).err # "none"]_vars

(* C5: a dispatch whose upstream call ran into the request timeout never
   decodes a payload, never starts persistence, and ends with the error
   response 500. *)
C5_TimeoutFails ==
    \A d \in Dispatches :
        CallTimedOut(d) =>
            /\ hpc[d] \notin {"Decoding", "Done"}
            /\ ppc[d] = "None"
            /\ Finished(d) => /\ w[d].status = StatusInternalServerError
                              /\ w[d].msg = "call_error"

\* a timed-out call has been answered
C5_Witness ==
    \E d \in Dispatches :
        CallTimedOut(d) /\ Finished(d) /\ w[d].status = StatusInternalServerError

(* C6: a request that fails validation gets a 400/415 error response and
   never reaches MakeAPIRequestAsync, the gate, the upstream or persistence. *)
C6_InvalidRequestStopsAtValidation ==
    \A d \in Dispatches :
        req[d] \in RequestKinds \ {"valid"} =>
            /\ gpc[d] = "None"
            /\ ~holds[d]
            /\ exchange[d] = NoExchange
            /\ ppc[d] = "None"
            /\ Finished(d)
            /\ w[d].status \in {StatusBadRequest, StatusUnsupportedMediaType}
            /\ w[d].fmt = "json_error"

\* an invalid field and a wrong content type have been refused
C6_Witness ==
    /\ \E d \in Dispatches : req[d] = "invalid_field" /\ w[d].status = StatusBadRequest
    /\ \E d \in Dispatches :
          req[d] = "bad_content_type" /\ w[d].status = StatusUnsupportedMediaType

(* C7: from the moment the handler has the upstream result (decoding,
   response check, persistence, response) the dispatch holds no token. *)
C7_NoTokenAfterCall ==
    \A d \in Dispatches :
        (hpc[d] \in {"Decoding", "Done", "Finished"} \/ ppc[d] # "None") => ~holds[d]

\* one dispatch decodes its upstream response while another one already
\* holds the only token
C7_Witness ==
    \E d1, d2 \in Dispatches :
        /\ config.MaxConcurrentCalls = 1
        /\ hpc[d1] = "Decoding" /\ exchange[d1].net = "ok"
        /\ holds[d2]

(* C8: a request is answered exactly once: nothing is written before the
   request ends, and when it has ended one status and one body have been
   written, the deadline of the Timeout middleware included. *)
C8_ExactlyOneResponse ==
    \A d \in Dispatches :
        /\ w[d].writes <= 1
        /\ Finished(d) <=> w[d].writes = 1
        /\ Finished(d) => w[d].status # 0

\* a request answered after the request deadline had passed
C8_Witness ==
    \E d \in Dispatches :
        Finished(d) /\ w[d].writes = 1 /\ w[d].detail = "context_deadline_exceeded"

(* C9: two dispatches with the same upstream result get the same client
   response whatever their persistence did, and a dispatch that started
   persistence is answered with the payload. *)
C9_ResponseIndependentOfPersistence ==
    /\ \A d1, d2 \in Dispatches :
          (Finished(d1) /\ Finished(d2) /\ result[d1] # NoResult /\ result[d1] = result[d2])
              => w[d1] = w[d2]
    /\ \A d \in Dispatches :
          (Finished(d) /\ ppc[d] # "None") =>
              w[d].status = StatusOK /\ w[d].msg = "payload"

\* same upstream result, one save succeeded and one failed or was cut off
C9_Witness ==
    \E d1, d2 \in Dispatches :
        /\ Finished(d1) /\ Finished(d2)
        /\ result[d1] = result[d2]
        /\ ppc[d1] = "Saved"
        /\ ppc[d2] \in {"SaveError", "Aborted"}

(* C10: a persistence task is cut off only by its own deadline, never by the
   request context. *)
C10_PersistenceOwnDeadline ==
    \A d \in Dispatches : ppc[d] = "Aborted" => bgCtx[d] = "deadline"

\* the handler has returned and cancelled the request context, the task runs on
C10_Witness ==
    \E d \in Dispatches :
        ppc[d] = "Running" /\ bgCtx[d] = "live" /\ ctx[d] = "released"

(* C11: the persistence goroutine of a dispatch makes one attempt: once it
   has ended (saved, failed, cut off or skipped) its outcome stays, a failed
   save is not tried again and the goroutine is not started again. *)
C11_OnePersistenceAttempt ==
    [][\A d \in Dispatches :
          /\ (PersistenceEnded(d) => ppc'[d] = ppc[d])
          /\ (ppc[d] = "Running" => ppc'[d] # "None")]_vars

\* a save has failed, its context is released and the request is over
C11_Witness ==
    \E d \in Dispatches :
        ppc[d] = "SaveError" /\ bgCtx[d] = "canceled" /\ Finished(d)

(* C12: persistence exists only for a dispatch that reached Done; a dispatch
   that failed (validation, network error, non-2xx status such as 503, bad
   body, rate limit, context) has no persistence task and no record, and it
   is answered with an error status. *)
C12_PersistenceOnlyAfterDone ==
    \A d \in Dispatches :
        /\ (ppc[d] # "None" => Completed(d))
        /\ (Failed(d) => ppc[d] = "None" /\ w[d].status >= StatusBadRequest /\ w[d].writes = 1)
        /\ FailureCause(d) => (~Completed(d) /\ ppc[d] = "None" /\ (Finished(d) => Failed(d)))

\* the upstream answered 503 and the client has its error response
C12_Witness ==
    \E d \in Dispatches :
        /\ exchange[d].net = "ok" /\ exchange[d].status = 503
        /\ Failed(d) /\ w[d].status = StatusInternalServerError
        /\ ppc[d] = "None"

(* C13 as claimed: when the persistence attempt of a dispatch has failed (or
   completed), the client of that dispatch has already been answered. *)
C13_ResponseBeforePersistenceEnd ==
    \A d \in Dispatches : PersistenceEnded(d) => Finished(d) /\ w[d].writes = 1

(* C13 as amended: the persistence goroutine ends only once the dispatch has
   reached Done, before or after the response is written, and the step that
   ends it leaves the handler and the response writer as they are. *)
C13_PersistenceEndLeavesResponse ==
    [][\A d \in Dispatches :
          (ppc[d] = "Running" /\ ppc'[d] # "Running") =>
              (hpc[d] \in {"Done", "Finished"} /\ hpc'[d] = hpc[d] /\ w'[d] = w[d])]_vars

\* the save has failed while the handler has not yet written the response
C13_Witness ==
    \E d \in Dispatches :
        ppc[d] \in {"SaveError", "Aborted"} /\ hpc[d] = "Done" /\ w[d].writes = 0

(* C14: a call gets the fabricated response only in a process configured
   with the documentation bearer token, whatever HTTP_USER_AGENT and
   HTTP_REFERER hold. *)
C14_SyntheticOnlyByConfiguration ==
    \A c \in Calls : call[c].mode = "mock" => config.APIBearerToken = SwaggerToken

(* C15: the mode MakeAPIRequest takes does not depend on its arguments: all
   calls made in one process take the same mode, the one isSwaggerRequest
   gives for the configuration and the environment. *)
C15_ModeIndependentOfRequest ==
    \A c1, c2 \in Calls :
        /\ (call[c1].mode # "none" /\ call[c2].mode # "none") => call[c1].mode = call[c2].mode
        /\ (call[c1].pc # "Start" /\ call[c1].ret.err # "marshal_error") => call[c1].mode # "none"

\* two calls that differ in endpoint, method and payload have taken their mode
C15_Witness ==
    \E c1, c2 \in Calls :
        /\ call[c1].endpoint # call[c2].endpoint
        /\ call[c1].method # call[c2].method
        /\ call[c1].body # call[c2].body
        /\ call[c1].mode = "live" /\ call[c2].mode = "live"

(* C16: a call in synthetic mode never acquires a token, never calls
   httpClient.Do and has no exchange; the tokens in the gate are those of the
   calls in flight. *)
C16_SyntheticTouchesNothing ==
    /\ \A c \in Calls :
          call[c].mode = "mock" =>
              (~call[c].acquired /\ ~call[c].sent /\ call[c].exch = NoOutcome)
    /\ apiSemaphore.len = Cardinality({c \in Calls : call[c].pc = "Calling"})

\* every call has returned its mock response and the gate is empty
C16_Witness ==
    /\ \A c \in Calls :
          call[c].mode = "mock" /\ call[c].pc = "Returned" /\ call[c].ret.err = "none"
    /\ apiSemaphore.len = 0

(* C17 as claimed: two synthetic-mode calls with the same endpoint and the
   same payload return the same response. *)
C17_SyntheticDeterministic ==
    \A c1, c2 \in Calls :
        (/\ call[c1].mode = "mock" /\ call[c2].mode = "mock"
         /\ call[c1].endpoint = call[c2].endpoint
         /\ call[c1].body = call[c2].body)
            => call[c1].ret = call[c2].ret

(* C17 as amended: two synthetic-mode calls with the same endpoint and the
   same payload return responses that differ at most in the Unix second
   built into the generated identifier. *)
C17_SyntheticSameButTimestamp ==
    \A c1, c2 \in Calls :
        (/\ call[c1].mode = "mock" /\ call[c2].mode = "mock"
         /\ call[c1].endpoint = call[c2].endpoint
         /\ call[c1].body = call[c2].body)
            => /\ call[c1].ret.err = call[c2].ret.err
               /\ call[c1].ret.err = "none" =>
                      ([call[c1].ret.body EXCEPT !.id = 0] = [call[c2].ret.body EXCEPT !.id = 0])
               /\ (call[c1].ret.err = "none" /\ call[c1].ret.body.id = call[c2].ret.body.id) =>
                      call[c1].ret = call[c2].ret

\* the same lead payload answered in two different seconds, called with two methods
C17_Witness ==
    \E c1, c2 \in Calls :
        /\ call[c1].mode = "mock" /\ call[c2].mode = "mock"
        /\ call[c1].endpoint = call[c2].endpoint /\ call[c1].body = call[c2].body
        /\ call[c1].method # call[c2].method
        /\ call[c1].ret.err = "none" /\ call[c2].ret.err = "none"
        /\ call[c1].ret.body.id # call[c2].ret.body.id

(* C18: a live call returns the upstream body and no error exactly when the
   exchange completed with a status in 200..299; for any other status it
   returns no body and the non-2xx error formatted from status and body. *)
C18_BodyIffStatus2xx ==
    \A c \in Calls :
        (call[c].mode = "live" /\ call[c].pc = "Returned") =>
            LET o == call[c].exch
                ok2xx == o.net = "ok" /\ o.status >= 200 /\ o.status <= 299
            IN /\ call[c].ret.err = "none" <=> ok2xx
               /\ ok2xx => call[c].ret.body = o.body
               /\ ~ok2xx => call[c].ret.body = "none"
               /\ (o.net = "ok" /\ ~ok2xx) =>
                      (call[c].ret.err = "non_2xx"
                       /\ call[c].ret.msg = [status |-> o.status, body |-> o.body])

\* one call answered 299 with its body, another answered 300 with the error
C18_Witness ==
    \E c1, c2 \in Calls :
        /\ call[c1].exch.status = 299 /\ call[c1].ret.body = "undecodable"
        /\ call[c2].exch.status = 300 /\ call[c2].ret.msg.status = 300

(* C19: every failed dispatch is answered with the standardized error
   response, a JSON body with success = false and an error message. *)
C19_FailuresAreStandardErrors ==
    \A d \in Dispatches : Failed(d) => w[d].fmt = "json_error"

(* C20: the error of a returned call names its cause: a marshal error for a
   body that cannot be serialized, a network error for a failed exchange, the
   non-2xx error for an answer outside 200..299; and a call that returns the
   marshal error has acquired no token and made no network call. *)
C20_DistinctErrorKinds ==
    \A c \in Calls :
        call[c].pc = "Returned" =>
            LET o == call[c].exch
                e == call[c].ret.err
            IN /\ e = "marshal_error" <=> call[c].body.kind = "unserializable"
               /\ e \in {"send_error", "timeout", "read_error"} <=>
                      o.net \in {"error", "timeout", "readerr"}
               /\ e = "non_2xx" <=> (o.net = "ok" /\ (o.status < 200 \/ o.status >= 300))
               /\ e = "marshal_error" =>
                      (~call[c].acquired /\ ~call[c].sent /\ call[c].mode = "none" /\ o = NoOutcome)

\* a marshal error, and a 503 told apart from it by another call
C20_Witness ==
    \E c1, c2 \in Calls :
        /\ call[c1].pc = "Returned" /\ call[c1].ret.err = "marshal_error"
        /\ call[c2].pc = "Returned" /\ call[c2].ret.err = "non_2xx"
        /\ call[c2].exch.status = 503

(* C26: a request the rate limiter rejects is answered 429 with the JSON
   error body and goes no further: no validation, no goroutine, no token, no
   upstream exchange, no result, no persistence. *)
C26_RateLimitedGoesNoFurther ==
    \A d \in Dispatches :
        w[d].status = StatusTooManyRequests =>
            /\ Finished(d)
            /\ w[d].fmt = "json_error" /\ w[d].msg = "rate_limit" /\ w[d].writes = 1
            /\ req[d] = "none"
            /\ gpc[d] = "None" /\ ~holds[d]
            /\ exchange[d] = NoExchange /\ result[d] = NoResult
            /\ ppc[d] = "None"

\* one request is turned away while another one is in its upstream call
C26_Witness ==
    \E d1, d2 \in Dispatches :
        /\ w[d1].status = StatusTooManyRequests /\ Finished(d1)
        /\ holds[d2]

(* C28: a dispatch makes at most one upstream call and never repeats it:
   while a call is pending or in flight no exchange has been made, a made
   exchange belongs to a valid request in live mode, and a valid live dispatch
   that ended without an exchange ended on its context error. *)
C28_OneUpstreamCall ==
    \A d \in Dispatches :
        /\ gpc[d] \in {"None", "Gated", "Calling"} => exchange[d] = NoExchange
        /\ exchange[d] # NoExchange =>
               (req[d] = "valid" /\ ~IsSwaggerRequest(config, env) /\ gpc[d] = "Exit" /\ ~holds[d])
        /\ (Finished(d) /\ req[d] = "valid" /\ ~IsSwaggerRequest(config, env)
             /\ exchange[d] = NoExchange) =>
               w[d].detail \in {"context_canceled", "context_deadline_exceeded"}
        /\ IsSwaggerRequest(config, env) => exchange[d] = NoExchange

\* a failed exchange has been reported to the client and was not repeated
C28_Witness ==
    \E d \in Dispatches :
        /\ exchange[d].net = "error" /\ gpc[d] = "Exit"
        /\ Finished(d) /\ w[d].detail = "send_error"

(* C29: the goroutine of MakeAPIRequestAsync produces exactly one APIResult:
   until it has returned nothing is in the channel and the buffer has room
   for its send, and once it has returned (channel closed) the one value is
   either still in the buffer or has been taken by the handler. *)
C29_ExactlyOneResult ==
    \A d \in Dispatches :
        /\ Len(resultChan[d]) <= 1
        /\ gpc[d] = "None" => (resultChan[d] = <<>> /\ ~Received(d))
        /\ gpc[d] \in {"Gated", "Calling"} =>
               (resultChan[d] = <<>> /\ ChanCanSend(resultChan[d]) /\ hpc[d] = "Waiting")
        /\ ResultChanClosed(d) =>
               ((Len(resultChan[d]) = 1 /\ hpc[d] = "Waiting")
                \/ (resultChan[d] = <<>> /\ Received(d)))

\* the goroutine has sent its result and returned while the handler has not
\* yet received, after a real exchange
C29_Witness ==
    \E d \in Dispatches :
        /\ ResultChanClosed(d) /\ Len(resultChan[d]) = 1 /\ hpc[d] = "Waiting"
        /\ exchange[d].net = "ok"

(* C30: what the client of a dispatch is told, and what is handed to its
   persistence goroutine, comes from its own request and its own upstream
   result: the reported error is the one of its own context or exchange, a
   payload and a persistence task exist only for its own good exchange. *)
C30_NoSharedRequestState ==
    \A d \in Dispatches :
        /\ (Finished(d) /\ w[d].msg = "call_error") => w[d].detail \in OwnError(d)
        /\ (Finished(d) /\ w[d].msg \in RequestKinds) => w[d].msg = req[d]
        /\ (result[d] # NoResult /\ ~IsSwaggerRequest(config, env)) =>
               (exchange[d].net = "ok" /\ exchange[d].status = StatusOK)
        /\ (w[d].msg = "payload" \/ ppc[d] # "None") => result[d].body = "valid"
        /\ (Finished(d) /\ w[d].msg = "decode_error") => result[d].body = "undecodable"
        /\ (Finished(d) /\ w[d].msg = "invalid_response") => result[d].body = "unsuccessful"

\* two dispatches with different upstream results, each answered with its own
C30_Witness ==
    \E d1, d2 \in Dispatches :
        /\ Finished(d1) /\ w[d1].msg = "payload" /\ exchange[d1].status = StatusOK
        /\ Finished(d2) /\ w[d2].msg = "call_error" /\ exchange[d2].status = 503

(* C21: in the burst of BurstCapacity + 1 valid live requests with successful
   exchanges, exactly BurstCapacity upstream calls are in flight and one waits
   at the gate as long as none has returned, a further call has begun only
   when an earlier one has returned and released its token, no request fails,
   and when nothing is left to do every request has been answered 200. *)
C21_BurstServedInTwoWaves ==
    LET InCall == {d \in Dispatches : gpc[d] = "Calling"}
        AtGate == {d \in Dispatches : gpc[d] = "Gated"}
        Returned == {d \in Dispatches : gpc[d] = "Exit"}
    IN /\ (BurstArrived /\ Returned = {}) =>
              (Cardinality(InCall) = BurstCapacity /\ Cardinality(AtGate) = 1)
       /\ Cardinality(InCall \cup Returned) > BurstCapacity =>
              (Returned # {} /\ Cardinality(InCall) <= BurstCapacity
               /\ apiSemaphore.len = Cardinality(InCall))
       /\ \A d \in Dispatches : w[d].status \in {0, StatusOK}
       /\ (~ENABLED NextBurst) =>
              \A d \in Dispatches :
                  Finished(d) /\ w[d].status = StatusOK /\ w[d].msg = "payload"
                  /\ exchange[d] = [net |-> "ok", status |-> StatusOK]

\* the burst is over: the request that had to wait has been served as well
C21_Witness ==
    /\ Cardinality(Dispatches) = BurstCapacity + 1
    /\ apiSemaphore.cap = BurstCapacity
    /\ \A d \in Dispatches : Finished(d) /\ w[d].status = StatusOK /\ exchange[d].net = "ok"

(* C22: for every configuration the persistence goroutine's deadline is at
   least the request deadline. *)
C22_PersistenceDeadlineNotShorter ==
    boot.pc = "Serving" => boot.persistenceDeadline >= boot.requestDeadline

(* C22, amended: the persistence deadline is PersistenceTimeout seconds in
   every configuration, whatever the request timeout; the request deadline,
   the Timeout middleware and the HTTP client all carry RequestTimeout; so
   the persistence deadline is the longer or equal one exactly when
   RequestTimeout is at most PersistenceTimeout. *)
C22_PersistenceDeadlineFixed ==
    boot.pc = "Serving" =>
        /\ boot.persistenceDeadline = PersistenceTimeout
        /\ boot.requestDeadline = config.RequestTimeout
        /\ boot.middlewareTimeout = config.RequestTimeout
        /\ boot.httpClientTimeout = config.RequestTimeout
        /\ (boot.persistenceDeadline >= boot.requestDeadline
            <=> config.RequestTimeout <= PersistenceTimeout)

\* the default configuration serves: requests get 30 seconds, persistence 10
C22_Witness ==
    /\ boot.pc = "Serving"
    /\ boot.startEnv.REQUEST_TIMEOUT = <<>>
    /\ boot.requestDeadline = DefaultRequestTimeout
    /\ boot.persistenceDeadline < boot.requestDeadline

(* C23: once the package initialisers have run, the capacity of the gate is
   MAX_CONCURRENT_CALLS of the start environment when that is an integer and
   DefaultMaxConcurrentCalls otherwise, and stays so. *)
C23_CapacityFromStartEnv ==
    LET mc == boot.startEnv.MAX_CONCURRENT_CALLS
        expected == IF mc # <<>> /\ Atoi(mc).ok THEN Atoi(mc).n
                    ELSE DefaultMaxConcurrentCalls
    IN boot.pc # "Start" => (boot.pc # "Panicked" /\ apiSemaphore.cap = expected)

(* C23, amended: the configuration is built once, by the package initialisers,
   from the start environment, and every later GetConfig returns it unchanged;
   its MaxConcurrentCalls is MAX_CONCURRENT_CALLS when that is an integer and
   DefaultMaxConcurrentCalls when it is unset or not an integer; when the
   value is not negative the gate has that capacity for the life of the
   process, and when it is negative the process panics while initialising
   and never serves. *)
C23_CapacityFixedAtStart ==
    LET mc == boot.startEnv.MAX_CONCURRENT_CALLS
        expected == IF mc # <<>> /\ Atoi(mc).ok THEN Atoi(mc).n
                    ELSE DefaultMaxConcurrentCalls
    IN boot.pc # "Start" =>
           /\ config = boot.first
           /\ GetConfig(config, env) = config
           /\ config.MaxConcurrentCalls = expected
           /\ expected >= 0 => (boot.pc # "Panicked" /\ apiSemaphore.cap = expected)
           /\ expected < 0 => boot.pc = "Panicked"

\* the process serves with the capacity of its start environment although
\* .env, loaded since, names another one
C23_Witness ==
    /\ boot.pc = "Serving"
    /\ boot.startEnv.MAX_CONCURRENT_CALLS = <<"2">>
    /\ env.MAX_CONCURRENT_CALLS = <<"2">>
    /\ boot.dotenv.MAX_CONCURRENT_CALLS = <<"1">>
    /\ apiSemaphore.cap = 2
    /\ \E c \in Calls : call[c].pc = "Returned"

(* C24: the serving process runs with the configuration of the .env file: a
   value given only there is the one the gate, the HTTP client, the
   deadlines and the credential are built with. *)
C24_DotenvConfigures ==
    boot.pc = "Serving" =>
        /\ (boot.startEnv.MAX_CONCURRENT_CALLS = <<>> /\ Atoi(boot.dotenv.MAX_CONCURRENT_CALLS).ok)
              => apiSemaphore.cap = Atoi(boot.dotenv.MAX_CONCURRENT_CALLS).n
        /\ (boot.startEnv.REQUEST_TIMEOUT = <<>> /\ Atoi(boot.dotenv.REQUEST_TIMEOUT).ok)
              => (boot.httpClientTimeout = Atoi(boot.dotenv.REQUEST_TIMEOUT).n
                  /\ boot.requestDeadline = Atoi(boot.dotenv.REQUEST_TIMEOUT).n)
        /\ (boot.startEnv.API_BEARER_TOKEN = "" /\ boot.dotenv.API_BEARER_TOKEN # "")
              => config.APIBearerToken = boot.dotenv.API_BEARER_TOKEN

(* C25: when main has installed the temporary development token, no call is
   a real upstream call: every call is answered with a mock response. *)
C25_TemporaryTokenMocks ==
    boot.temporaryToken => \A c \in Calls : call[c].mode # "live" /\ ~call[c].sent

(* C27: once ValidateRequest has run on a request, a request whose
   Content-Type header is absent or is not exactly application/json has been
   answered 415 with the JSON error, whatever its body is, with no goroutine,
   no token and no exchange; a request with the header has gone on to the
   decoding and validation of its body and is judged by them. *)
C27_ContentTypeRequired ==
    \A d \in Dispatches :
        hpc[d] \notin {"Idle", "Validating"} =>
            IF inbound[d].contentType # "application/json"
            THEN /\ Finished(d)
                 /\ w[d].status = StatusUnsupportedMediaType
                 /\ w[d].fmt = "json_error" /\ w[d].msg = "bad_content_type"
                 /\ gpc[d] = "None" /\ ~holds[d]
                 /\ exchange[d] = NoExchange /\ resultChan[d] = <<>>
            ELSE /\ req[d] = inbound[d].body
                 /\ w[d].status # StatusUnsupportedMediaType
                 /\ w[d].msg \in {"none", "undecodable", "invalid_field"}
                 /\ inbound[d].body = "valid" <=> gpc[d] # "None"

\* a request without the header and with a body that would not decode has
\* been answered 415, and one with the header is in its upstream call
C27_Witness ==
    \E d1, d2 \in Dispatches :
        /\ inbound[d1] = [contentType |-> "", body |-> "undecodable"]
        /\ Finished(d1) /\ w[d1].status = StatusUnsupportedMediaType
        /\ inbound[d2] = [contentType |-> "application/json", body |-> "valid"]
        /\ holds[d2]

(* C31: under a fair scheduler and with every started exchange ending, a
   dispatch that has passed validation comes to its end and its client is
   answered, for every capacity the configuration can give. *)
C31_ValidatedDispatchAnswers ==
    \A d \in 1..NumDispatches :
        (hpc[d] = "Waiting") ~> (hpc[d] = "Finished" /\ w[d].writes = 1)

(* C33: when the goroutine of MakeAPIRequestAsync starts with a context that
   is already done, it sends the context's error as its one result and
   returns: no token is taken, no exchange is begun and no mock is made. *)
C33_DoneContextNoCall ==
    [][\A d \in Dispatches :
          (gpc[d] = "None" /\ gpc'[d] # "None" /\ CtxDone(ctx[d])) =>
              /\ gpc'[d] = "Exit"
              /\ resultChan'[d] = <<[err |-> CtxErr(ctx[d]), body |-> "none"]>>
              /\ apiSemaphore' = apiSemaphore
              /\ ~holds'[d]
              /\ exchange'[d] = NoExchange]_vars

\* the client went away during validation: its dispatch has been answered
\* with the context error although the gate was free
C33_Witness ==
    \E d \in Dispatches :
        /\ Finished(d) /\ req[d] = "valid"
        /\ w[d].detail = "context_canceled"
        /\ exchange[d] = NoExchange /\ gpc[d] = "Exit"
        /\ apiSemaphore.cap >= 1 /\ apiSemaphore.len = 0

(* C35: without a database pool the persistence goroutine of a dispatch
   ends without an error and without a record, whatever its deadline does,
   and the client of the dispatch is answered 200 with the payload. *)
C35_NilPoolSkipsSave ==
    dbPool = "nil" =>
        \A d \in Dispatches :
            /\ ppc[d] \in {"None", "Running", "Skipped"}
            /\ ppc[d] = "Skipped" => (Completed(d) /\ w[d].status \in {0, StatusOK})
            /\ (ppc[d] = "Skipped" /\ Finished(d)) => w[d].msg = "payload"

\* no pool, the deadline of the persistence context has passed, the save
\* has returned all the same and the client has its payload
C35_Witness ==
    /\ dbPool = "nil"
    /\ \E d \in Dispatches :
          ppc[d] = "Skipped" /\ bgCtx[d] = "deadline" /\ Finished(d) /\ w[d].status = StatusOK

(* C37: a quick-quote request whose accessoriesAmount or postalCode is 0, the
   minimum its rule names, and whose other fields are valid, passes
   validation and is dispatched. *)
C37_MinimumValuesAccepted ==
    \A d \in Dispatches :
        LET v == inbound[d].fields
            OthersValid ==
                \A f \in DOMAIN FieldRules \ {"accessoriesAmount", "postalCode"} :
                    FieldValid(FieldRules[f], v[f])
        IN (/\ hpc[d] \notin {"Idle", "Validating"}
            /\ OthersValid
            /\ v.accessoriesAmount \in {0, 1500} /\ v.postalCode \in {0, 2196})
           => (req[d] = "valid" /\ gpc[d] # "None")

(* C32: a live call that came back 2xx with a body that decodes but says
   success = false or has an empty identifier is answered with an error and
   not with the payload, and nothing is handed to persistence. *)
C32_UnsuccessfulResponseFails ==
    \A c \in Calls :
        (/\ call[c].pc = "Handled" /\ call[c].mode = "live"
         /\ call[c].exch.net = "ok" /\ call[c].exch.status = StatusOK
         /\ call[c].exch.body.shape = call[c].handler
         /\ (~call[c].exch.body.success \/ call[c].exch.body.id = 0))
        => (/\ call[c].answer.status = StatusInternalServerError
            /\ call[c].answer.msg = "invalid_response"
            /\ call[c].answer.id = 0
            /\ call[c].persist = 0)

\* both cases have been handled: one response with success = false and one
\* with success = true and an empty identifier
C32_Witness ==
    \E c1, c2 \in Calls :
        /\ call[c1].pc = "Handled" /\ call[c1].exch.status = StatusOK
        /\ call[c1].exch.body.shape = call[c1].handler /\ ~call[c1].exch.body.success
        /\ call[c2].pc = "Handled" /\ call[c2].exch.status = StatusOK
        /\ call[c2].exch.body.shape = call[c2].handler
        /\ call[c2].exch.body.success /\ call[c2].exch.body.id = 0
        /\ call[c1].answer.status = StatusInternalServerError
        /\ call[c2].answer.status = StatusInternalServerError

(* C34: in synthetic mode a handled call has been answered 200 with the
   fabricated identifier, and that identifier has been handed to
   persistence. *)
C34_SyntheticEndsDone ==
    \A c \in Calls :
        (call[c].pc = "Handled" /\ call[c].mode = "mock") =>
            /\ call[c].answer.status = StatusOK
            /\ call[c].answer.id = call[c].ret.body.id /\ call[c].answer.id # 0
            /\ call[c].persist = call[c].answer.id

(* C34, amended: in synthetic mode a handled call whose configured endpoint
   contains the path of its handler has been answered 200 with the fabricated
   identifier, which has been handed to persistence as a real one would be,
   and without any exchange; with an endpoint that does not contain the path
   the fabricated response has no identifier, the call is answered 500 and
   nothing is handed to persistence. *)
C34_SyntheticEndsDoneOnKnownPath ==
    \A c \in Calls :
        (call[c].pc = "Handled" /\ call[c].mode = "mock") =>
            IF StrContains(call[c].endpoint, HandlerPath(call[c].handler))
            THEN /\ call[c].answer = [status |-> StatusOK, msg |-> "payload",
                                      id |-> call[c].ret.body.id]
                 /\ call[c].answer.id \in Times
                 /\ call[c].persist = call[c].answer.id
                 /\ call[c].exch = NoOutcome /\ ~call[c].acquired
            ELSE /\ call[c].answer.status = StatusInternalServerError
                 /\ call[c].answer.msg = "invalid_response"
                 /\ call[c].persist = 0

\* a lead and a quote have both been answered from fabricated responses
C34_Witness ==
    \E c1, c2 \in Calls :
        /\ call[c1].handler = "lead" /\ call[c2].handler = "quote"
        /\ \A c \in {c1, c2} :
              /\ call[c].pc = "Handled" /\ call[c].mode = "mock"
              /\ call[c].answer.status = StatusOK /\ call[c].persist \in Times

(* C36: when ProcessAPIRequests has returned, every goroutine has finished
   its request function or skipped it, the returned slice is as long as the
   input, its element i is what request function i returned, or the context
   error when goroutine i found the context done, and at every moment
   element i has been written by goroutine i only, at most once. *)
C36_BatchResultsInOrder ==
    /\ \A j \in DOMAIN batch.writers : batch.writers[j] \subseteq {j}
    /\ batch.pc = "Returned" =>
          /\ Len(batch.returned) = Len(batch.requests)
          /\ \A j \in DOMAIN batch.requests :
                /\ batch.gp[j] \in {"finished", "skipped"}
                /\ batch.writers[j] = {j}
                /\ batch.gp[j] = "finished" =>
                       batch.returned[j] = FnResult(j, batch.requests[j])
                /\ batch.gp[j] = "skipped" =>
                       batch.returned[j] = [err |-> "context_canceled", body |-> 0]

\* a batch of at least two has returned, one request run to its result and
\* another skipped because the context had ended
C36_Witness ==
    /\ batch.pc = "Returned"
    /\ Len(batch.returned) >= 2
    /\ \E j, k \in DOMAIN batch.requests :
          /\ batch.gp[j] = "finished" /\ batch.returned[j].body = j
          /\ batch.gp[k] = "skipped" /\ batch.returned[k].err = "context_canceled"

====
